---------------------------- MODULE Spec2Model ----------------------------
(***************************************************************************)
(* Model of sakethsram/command_parser: the transcript segmenter            *)
(* (command_segmenter.py), the record parsers (mx80_parser_engine.py) and  *)
(* the key-based diff (network_config_comparator.py).                      *)
(*                                                                         *)
(* Text is modelled as a sequence of tokens.  A token is either a maximal  *)
(* run of non-whitespace characters (a word), SP (one blank) or NL (one    *)
(* newline).  Python's str methods and the regular expressions of the      *)
(* source are computed on that sequence.                                   *)
(***************************************************************************)
EXTENDS Integers, Sequences, FiniteSets, TLC

VARIABLES
    terminal_output,   \* the transcript handed to the extractors
    extractor,         \* number of the extractor that ran last (0: none yet)
    segment,           \* what the last extractor returned
    parser,            \* number of the parser that ran last (0: none yet)
    result,            \* what the last parser or export call returned or raised
    pre_file,          \* the transcript taken before the update
    post_file,         \* the transcript taken after the update
    pre_data,          \* command name -> parsed dict, before the update
    post_data,         \* command name -> parsed dict, after the update
    comparison,        \* what generate_comparison returned
    genie_outcome,     \* what the last call of Genie's parser returned or raised
    returned,          \* the extract-and-parse runs that have returned, in order
    frames,            \* the calls in progress, each with its local variables
    heap,              \* the objects the calls have made, by address
    pc                 \* the step of the comparator's main program

segVars == <<terminal_output, extractor, segment>>
parseVars == <<parser, result, genie_outcome>>
diffVars == <<pre_file, post_file, pre_data, post_data, comparison, pc>>
callVars == <<returned, frames, heap>>
vars == <<terminal_output, extractor, segment, parser, result, pre_file,
          post_file, pre_data, post_data, comparison, genie_outcome, returned,
          frames, heap, pc>>

(***************************************************************************)
(* Bounds of the model.                                                    *)
(***************************************************************************)
MaxBody == 2        \* output lines under the command line under test
MaxOccur == 3       \* command blocks in a transcript of the rsvp session family

(***************************************************************************)
(* Tokens and Python values.                                               *)
(***************************************************************************)
NL == "\n"
SP == " "

IsWs(x) == x \in {NL, SP}

\* Python None, and a returned str
None == [some |-> FALSE, text |-> <<>>]
Some(t) == [some |-> TRUE, text |-> t]

\* str.lower() on the vocabulary of the model (re.IGNORECASE)
MixedCaseWords ==
    <<"*[Direct]", "*[RSVP/7/1]", "*[Static/5]", "--VL--", "AA", "AA:02",
      "AS", "Accepted", "Act", "Active", "ActivePath", "Address", "Address:",
      "Adj-SID", "Adj-SID:", "Administrative", "Advertised", "Autonomous",
      "BGP", "Bit", "Bit:", "Connect", "Cumulative", "DN", "Default",
      "Description", "Description:", "Detect", "Direct", "Direct:", "Discard",
      "Dn", "Down", "Egress", "Establ", "Event", "Expires", "FF", "Flags",
      "Flags:", "From", "Group", "Group:", "Groups", "Groups:", "Holdtime",
      "Holdtime:", "I/O", "ID", "ID:", "IP", "Idle", "InPkt", "Ingress",
      "Interface", "Interface:", "Internal", "LSP", "LSP:", "LSPname",
      "Labelin", "Labelout", "Last", "Level", "Level:", "Local", "Local:",
      "MAC", "Mode", "Number", "OutPkt", "P", "P2MP", "Parent", "Passive",
      "Paths", "Peer", "Peer:", "Peers", "Peers:", "Pop", "Priority",
      "Priority:", "RSVP", "RSVP:", "Receive", "Received", "Router",
      "Routing-Instance", "Routing-Instance:", "Rt", "SHOW", "Seenself",
      "State", "State:", "Static", "Static:", "Style", "Suppressed", "Table",
      "Threading", "To", "Tot", "Total", "Transit", "Transition", "Tue",
      "Type", "Type:", "Up", "Up,", "Up/Dn", "Up/Down", "VR", "When", "eBGP">>

LowerCaseWords ==
    <<"*[direct]", "*[rsvp/7/1]", "*[static/5]", "--vl--", "aa", "aa:02",
      "as", "accepted", "act", "active", "activepath", "address", "address:",
      "adj-sid", "adj-sid:", "administrative", "advertised", "autonomous",
      "bgp", "bit", "bit:", "connect", "cumulative", "dn", "default",
      "description", "description:", "detect", "direct", "direct:", "discard",
      "dn", "down", "egress", "establ", "event", "expires", "ff", "flags",
      "flags:", "from", "group", "group:", "groups", "groups:", "holdtime",
      "holdtime:", "i/o", "id", "id:", "ip", "idle", "inpkt", "ingress",
      "interface", "interface:", "internal", "lsp", "lsp:", "lspname",
      "labelin", "labelout", "last", "level", "level:", "local", "local:",
      "mac", "mode", "number", "outpkt", "p", "p2mp", "parent", "passive",
      "paths", "peer", "peer:", "peers", "peers:", "pop", "priority",
      "priority:", "rsvp", "rsvp:", "receive", "received", "router",
      "routing-instance", "routing-instance:", "rt", "show", "seenself",
      "state", "state:", "static", "static:", "style", "suppressed", "table",
      "threading", "to", "tot", "total", "transit", "transition", "tue",
      "type", "type:", "up", "up,", "up/dn", "up/down", "vr", "when", "ebgp">>

Lower(w) ==
    IF \E i \in 1..Len(MixedCaseWords) : MixedCaseWords[i] = w
    THEN LowerCaseWords[CHOOSE i \in 1..Len(MixedCaseWords) : MixedCaseWords[i] = w]
    ELSE w

\* a word made of decimal digits only (\d+)
IsNumber(w) ==
    w \in {"0", "01", "02", "05", "1", "10", "2", "20", "3", "4", "40", "5",
          "7", "9"}

\* the decimal digits a word of the vocabulary starts with ("": none), what
\* (\d+) takes of the word where the pattern ends with it
DigitsAtStart(w) ==
    CASE w \in {"0", "0,", "0.1", "0.3"} -> "0"
      [] w \in {"01"} -> "01"
      [] w \in {"02"} -> "02"
      [] w \in {"05", "05:55:40", "05:55:40,"} -> "05"
      [] w \in {"1", "1,", "1/0", "1/1", "1/4/4/0", "1d", "1d,"} -> "1"
      [] w \in {"10", "10.0.0.1", "10.0.0.2", "10.0.0.9"} -> "10"
      [] w \in {"2", "2,"} -> "2"
      [] w \in {"20", "20.0"} -> "20"
      [] w \in {"3", "3,"} -> "3"
      [] w \in {"4"} -> "4"
      [] w \in {"40"} -> "40"
      [] w \in {"5"} -> "5"
      [] w \in {"7"} -> "7"
      [] w \in {"9"} -> "9"
      [] OTHER -> ""

\* a word that starts with \S+@\S+>
IsPromptWord(w) == w \in {"u@h>"}

\* the index of the first / last token of s that is not whitespace (0: none)
FirstNonWs(s) ==
    IF \E i \in 1..Len(s) : ~IsWs(s[i])
    THEN CHOOSE i \in 1..Len(s) :
            /\ ~IsWs(s[i])
            /\ \A j \in 1..(i - 1) : IsWs(s[j])
    ELSE 0

LastNonWs(s) ==
    IF \E i \in 1..Len(s) : ~IsWs(s[i])
    THEN CHOOSE i \in 1..Len(s) :
            /\ ~IsWs(s[i])
            /\ \A j \in (i + 1)..Len(s) : IsWs(s[j])
    ELSE 0

\* str.strip()
Strip(s) ==
    IF FirstNonWs(s) = 0 THEN <<>> ELSE SubSeq(s, FirstNonWs(s), LastNonWs(s))

\* the index of the last / first NL of s (0: none)
LastNL(s) ==
    IF \E i \in 1..Len(s) : s[i] = NL
    THEN CHOOSE i \in 1..Len(s) :
            s[i] = NL /\ \A j \in (i + 1)..Len(s) : s[j] # NL
    ELSE 0

FirstNL(s) ==
    IF \E i \in 1..Len(s) : s[i] = NL
    THEN CHOOSE i \in 1..Len(s) :
            s[i] = NL /\ \A j \in 1..(i - 1) : s[j] # NL
    ELSE 0

\* s.rsplit("\n", 1)[0]
RSplitHead(s) == IF LastNL(s) = 0 THEN s ELSE SubSeq(s, 1, LastNL(s) - 1)

\* s.split('\n')
RECURSIVE SplitLines(_)
SplitLines(s) ==
    IF FirstNL(s) = 0 THEN <<s>>
    ELSE <<SubSeq(s, 1, FirstNL(s) - 1)>>
            \o SplitLines(SubSeq(s, FirstNL(s) + 1, Len(s)))

\* '\n'.join(lines)
RECURSIVE JoinLines(_)
JoinLines(lines) ==
    IF Len(lines) = 0 THEN <<>>
    ELSE IF Len(lines) = 1 THEN lines[1]
    ELSE lines[1] \o <<NL>> \o JoinLines(Tail(lines))

(***************************************************************************)
(* Regular expressions.  A pattern is a sequence of elements: "\\s+",      *)
(* "\\s*", "$" (end of line, re.MULTILINE), "\\d+", "\\S+", "[0-9a-f:]+",  *)
(* "\\d+\\.\\d+\\.\\d+\\.\\d+", "\\d+," and other forms of one word, "\\S*"  *)
(* (a word or nothing), ".+" (the rest of the line), ".+?" (as little of   *)
(* the line as the rest of the pattern allows), or a literal word or       *)
(* blank.  ic is the flag re.IGNORECASE.                                   *)
(***************************************************************************)
NoMatch == 0

\* number of whitespace tokens of s starting at position i
RECURSIVE WsRun(_, _)
WsRun(s, i) == IF i <= Len(s) /\ IsWs(s[i]) THEN 1 + WsRun(s, i + 1) ELSE 0

\* a word of the vocabulary made of the characters 0-9, a-f and ':' only
IsHexWord(w) ==
    w \in {"0", "01", "02", "05", "05:55:40", "1", "10", "1d", "2", "20", "3",
          "4", "40", "5", "7", "9", "a", "a1", "a2", "a3", "a4", "aa", "aa:01",
          "aa:02", "added", "b1", "b2", "b3", "b4", "bb", "bb:01", "bfd", "c1",
          "c2", "c3", "c4", "d1", "d2", "d3", "d4", "e1", "e2", "e3", "e4",
          "ff"}

\* a word of the vocabulary of the form \d+\.\d+\.\d+\.\d+
IsIpWord(w) ==
    w \in {"10.0.0.1", "10.0.0.2", "10.0.0.9"}

\* the words of the vocabulary with a comma: it is their last character
EndsWithComma(w) ==
    w \in {"0,", "05:55:40,", "1,", "1d,", "2,", "3,", "Up,", "active,",
          "destinations,", "displayed,", "g1,", "g2,", "ge-0,", "holddown,",
          "lsi.0,", "pps,", "route,", "routes,", "session,", "sessions,", "up,"}

\* the words of the vocabulary of the form [A-Z][A-Za-z0-9-]+:
IsProtocolName(w) ==
    w \in {"Address:", "Adj-SID:", "Bit:", "Description:", "Direct:", "Flags:",
          "Group:", "Groups:", "Holdtime:", "ID:", "Interface:", "LSP:",
          "Level:", "Local:", "Peer:", "Peers:", "Priority:", "RSVP:",
          "Routing-Instance:", "State:", "Static:", "Type:"}

\* w.startswith(sub) and w.endswith(sub), for a word w of the vocabulary
PrefixOf ==
    <<"*", "*", "*", "*", "*", "*", "-", "-", "0", "0", "0", "0", "0", "0",
      "0", "0", "05", "05", "05:55:40", "1", "1", "1", "1", "1", "1", "1",
      "1", "1", "1", "10", "10", "10", "1d", "2", "2", "2", "20", "3", "4",
      "AA", "Act", "Act", "Active", "Address", "Adj-SID", "Bit",
      "Description", "Direct", "Flags", "Group", "Group", "Group", "Groups",
      "Holdtime", "ID", "Interface", "LSP", "LSP", "Level", "Local", "P", "P",
      "P", "P", "P", "P", "P", "P", "P", "P", "P", "Peer", "Peer", "Peer",
      "Peers", "Priority", "RSVP", "Receive", "Routing-Instance", "State",
      "Static", "To", "To", "Tot", "Transit", "Type", "Up", "Up", "Up", "a",
      "a", "a", "a", "a", "a", "a", "a", "a", "a", "a", "a", "a", "a", "a",
      "a", "a", "a", "a", "a", "a", "a", "a", "a", "a", "a", "a", "aa", "aa",
      "act", "act", "act", "active", "active", "address", "address",
      "address", "addresses", "adj-sid", "bb", "bit", "client", "count",
      "description", "destinations", "direct", "displayed", "entries",
      "flags", "flaps", "g1", "g2", "ge-0", "group", "group", "group",
      "groups", "holddown", "holdtime", "id", "id", "in", "in", "in", "in",
      "in", "in", "in", "in", "in", "in", "inet.0", "inet.3", "interface",
      "level", "local", "log", "lsi", "lsi", "lsi.0", "lsp", "lsp", "lsp",
      "lsp", "ma", "ma", "ma", "ma", "mode", "mpls", "mpls", "mpls.0", "name",
      "neighbor", "neighbor", "no", "no", "no", "number", "p", "p", "p", "p",
      "p", "p", "p", "p", "p", "p", "p", "p", "p", "p", "p", "p", "p", "p",
      "p", "peer", "peer", "peer", "peers", "pps", "prefixes", "priority",
      "receive", "route", "route", "route", "route", "routes",
      "routing-instance", "rsvp", "session", "session", "session", "sessions",
      "state", "static", "to", "to", "tot", "transit", "transit", "transit",
      "transit", "transition", "transition", "transition", "transitions",
      "type", "up", "up", "up", "vr">>

PrefixIn ==
    <<"*[Direct]", "*[RSVP/7/1]", "*[Static/5]", "*[direct]", "*[rsvp/7/1]",
      "*[static/5]", "--VL--", "--vl--", "0,", "0.1", "0.3", "01", "02", "05",
      "05:55:40", "05:55:40,", "05:55:40", "05:55:40,", "05:55:40,", "1,",
      "1/0", "1/1", "1/4/4/0", "10", "10.0.0.1", "10.0.0.2", "10.0.0.9", "1d",
      "1d,", "10.0.0.1", "10.0.0.2", "10.0.0.9", "1d,", "2,", "20", "20.0",
      "20.0", "3,", "40", "AA:02", "Active", "ActivePath", "ActivePath",
      "Address:", "Adj-SID:", "Bit:", "Description:", "Direct:", "Flags:",
      "Group:", "Groups", "Groups:", "Groups:", "Holdtime:", "ID:",
      "Interface:", "LSP:", "LSPname", "Level:", "Local:", "P2MP", "Parent",
      "Passive", "Paths", "Peer", "Peer:", "Peers", "Peers:", "Pop",
      "Priority", "Priority:", "Peer:", "Peers", "Peers:", "Peers:",
      "Priority:", "RSVP:", "Received", "Routing-Instance:", "State:",
      "Static:", "Tot", "Total", "Total", "Transition", "Type:", "Up,",
      "Up/Dn", "Up/Down", "a1", "a2", "a3", "a4", "aa", "aa:01", "aa:02",
      "accepted", "act", "active", "active,", "activepath", "added",
      "address", "address:", "addresses", "addresses:", "adj-sid", "adj-sid:",
      "adjacency", "administrative", "advertised", "again", "ago", "arp",
      "as", "autonomous", "aa:01", "aa:02", "active", "active,", "activepath",
      "active,", "activepath", "address:", "addresses", "addresses:",
      "addresses:", "adj-sid:", "bb:01", "bit:", "clients", "count:",
      "description:", "destinations,", "direct:", "displayed,", "entries:",
      "flags:", "flaps:", "g1,", "g2,", "ge-0,", "group:", "groups",
      "groups:", "groups:", "holddown,", "holdtime:", "id:", "idle",
      "indented", "inet.0", "inet.0:", "inet.3", "inet.3:", "ingress",
      "inpkt", "interface", "interface:", "internal", "inet.0:", "inet.3:",
      "interface:", "level:", "local:", "log:", "lsi.0", "lsi.0,", "lsi.0,",
      "lsp1", "lsp2", "lsp:", "lspname", "mac", "many", "master", "match",
      "mode:", "mpls.0", "mpls.0:", "mpls.0:", "name:", "neighbor:",
      "neighbors", "no-more", "no-resolve", "none", "number:", "p1", "p2mp",
      "parent", "passive", "paths", "peer", "peer:", "peers", "peers:",
      "perm", "plain", "pop", "pps", "pps,", "prefixes", "prefixes:",
      "priority", "priority:", "prompt", "peer:", "peers", "peers:", "peers:",
      "pps,", "prefixes:", "priority:", "received", "route,", "router",
      "routes", "routes,", "routes,", "routing-instance:", "rsvp:",
      "session,", "sessions", "sessions,", "sessions,", "state:", "static:",
      "tot", "total", "total", "transition", "transition:", "transitions",
      "transitions:", "transition:", "transitions", "transitions:",
      "transitions:", "type:", "up,", "up/dn", "up/down", "vrrp">>

PrefixPairs == {<<PrefixOf[i], PrefixIn[i]>> : i \in 1..Len(PrefixOf)}

StartsWith(w, sub) == w = sub \/ <<sub, w>> \in PrefixPairs

SuffixOf ==
    <<"-", "-", "0", "0", "0", "0", "0", "0", "0", "0", "0", "0", "0", "0",
      "0,", "0,", "0,", "0.1", "01", "01", "02", "02", "1", "1", "1", "1",
      "1", "1", "1", "1", "1", "1", "1", "1", "1", "1", "1", "1", "1", "1",
      "1", "1,", "2", "2", "2", "2", "2", "2", "2", "2", "2", "2", "2", "2",
      "2", "2", "2", "2,", "3", "3", "3", "3", "3", "3", "3", "3", "4", "4",
      "4", "4", "4", "40", "5", "9", ":", ":", ":", ":", ":", ":", ":", ":",
      ":", ":", ":", ":", ":", ":", ":", ":", ":", ":", ":", ":", ":", ":",
      ":", ":", ":", ":", ":", ":", ":", ":", ":", ":", ":", ":", ":", ":",
      ":", ":", ":", ":", ":", ":", ":", ":", ":", ":", ":", ":", ":", ":",
      ":", ":", ":", ":", ":", ":", ":", ":", ":", ">", "BGP", "Dn", "Down",
      "ID", "ID:", "P", "P", "P", "P", "P", "P", "a", "a", "a", "bgp", "dn",
      "down", "down", "id", "id:", "in", "in", "in", "in", "ip", "name",
      "name", "p", "p", "p", "p", "p", "p", "p", "p", "p", "p", "p", "p", "p",
      "p", "p", "p", "p", "p1", "rt", "up", "up", "up">>

SuffixIn ==
    <<"--VL--", "--vl--", "(0", "05:55:40", "1/0", "1/4/4/0", "10", "20",
      "20.0", "40", "ge-0", "inet.0", "lsi.0", "mpls.0", "05:55:40,", "ge-0,",
      "lsi.0,", "10.0.0.1", "aa:01", "bb:01", "AA:02", "aa:02", "(1", "0.1",
      "01", "1/1", "10.0.0.1", "a1", "aa:01", "b1", "bb:01", "c1", "d1", "e1",
      "g1", "ge-1", "lsp1", "p1", "r1", "v1", "w1", "g1,", "(2", "02",
      "10.0.0.2", "AA:02", "a2", "aa:02", "b2", "c2", "d2", "e2", "g2",
      "lsp2", "r2", "v2", "w2", "g2,", "(3", "0.3", "a3", "b3", "c3", "d3",
      "e3", "inet.3", "a4", "b4", "c4", "d4", "e4", "05:55:40", "05",
      "10.0.0.9", "Address:", "Adj-SID:", "Bit:", "Description:", "Direct:",
      "Flags:", "Group:", "Groups:", "Holdtime:", "ID:", "Interface:", "LSP:",
      "Level:", "Local:", "Peer:", "Peers:", "Priority:", "RSVP:",
      "Routing-Instance:", "State:", "Static:", "Type:", "address:",
      "addresses:", "adj-sid:", "bit:", "count:", "description:", "direct:",
      "entries:", "flags:", "flaps:", "group:", "groups:", "holdtime:", "id:",
      "inet.0:", "inet.3:", "interface:", "level:", "local:", "log:", "lsp:",
      "mode:", "mpls.0:", "name:", "neighbor:", "number:", "peer:", "peers:",
      "prefixes:", "priority:", "routing-instance:", "rsvp:", "state:",
      "static:", "transition:", "transitions:", "type:", "u@h>", "eBGP",
      "Up/Dn", "Up/Down", "Adj-SID", "Adj-SID:", "BGP", "IP", "LSP", "P2MP",
      "RSVP", "eBGP", "aa", "ma", "via", "ebgp", "up/dn", "holddown",
      "up/down", "adj-sid", "adj-sid:", "Labelin", "again", "labelin",
      "plain", "vip", "LSPname", "lspname", "Group", "Pop", "Up", "arp",
      "backup", "bgp", "ebgp", "group", "ip", "lldp", "lsp", "p2mp", "pop",
      "rsvp", "up", "vip", "vrrp", "lsp1", "export", "Group", "backup",
      "group">>

SuffixPairs == {<<SuffixOf[i], SuffixIn[i]>> : i \in 1..Len(SuffixOf)}

EndsWith(w, sub) == w = sub \/ <<sub, w>> \in SuffixPairs

\* sub in w
ContainedOf ==
    <<"*", "*", "*", "*", "*", "*", "-", "-", "-", "-", "-", "-", "-", "-",
      "-", "-", "-", "-", "-", "-", "-", "/", "/", "/", "/", "/", "/", "/",
      "/", "/", "/", "/", "/", "/", "0", "0", "0", "0", "0", "0", "0", "0",
      "0", "0", "0", "0", "0", "0", "0", "0", "0", "0", "0", "0", "0", "0",
      "0", "0", "0", "0", "0", "0", "0", "0", "0,", "0,", "0,", "0.1", "01",
      "01", "02", "02", "05", "05", "05:55:40", "1", "1", "1", "1", "1", "1",
      "1", "1", "1", "1", "1", "1", "1", "1", "1", "1", "1", "1", "1", "1",
      "1", "1", "1", "1", "1", "1", "1", "1", "1", "1", "1,", "10", "10",
      "10", "1d", "2", "2", "2", "2", "2", "2", "2", "2", "2", "2", "2", "2",
      "2", "2", "2", "2", "2", "2", "2", "2", "2", "2,", "20", "3", "3", "3",
      "3", "3", "3", "3", "3", "3", "3", "4", "4", "4", "4", "4", "4", "4",
      "4", "4", "40", "40", "5", "5", "5", "5", "5", "7", "7", "9", ":", ":",
      ":", ":", ":", ":", ":", ":", ":", ":", ":", ":", ":", ":", ":", ":",
      ":", ":", ":", ":", ":", ":", ":", ":", ":", ":", ":", ":", ":", ":",
      ":", ":", ":", ":", ":", ":", ":", ":", ":", ":", ":", ":", ":", ":",
      ":", ":", ":", ":", ":", ":", ":", ":", ":", ":", ":", ":", ":", ":",
      ":", ":", ":", ":", ":", ":", ":", ">", "AA", "Act", "Act", "Active",
      "Address", "Adj-SID", "BGP", "Bit", "Description", "Direct", "Direct",
      "Dn", "Down", "Flags", "Group", "Group", "Group", "Groups", "Holdtime",
      "ID", "ID", "ID", "ID:", "Interface", "LSP", "LSP", "Level", "Local",
      "P", "P", "P", "P", "P", "P", "P", "P", "P", "P", "P", "P", "P", "P",
      "P", "P", "P", "P", "P", "P", "P", "P", "P", "Peer", "Peer", "Peer",
      "Peers", "Priority", "RSVP", "RSVP", "Receive", "Routing-Instance",
      "State", "Static", "Static", "To", "To", "Tot", "Transit", "Type", "Up",
      "Up", "Up", "a", "a", "a", "a", "a", "a", "a", "a", "a", "a", "a", "a",
      "a", "a", "a", "a", "a", "a", "a", "a", "a", "a", "a", "a", "a", "a",
      "a", "a", "a", "a", "a", "a", "a", "a", "a", "a", "a", "a", "a", "a",
      "a", "a", "a", "a", "a", "a", "a", "a", "a", "a", "a", "a", "a", "a",
      "a", "a", "a", "a", "a", "a", "a", "a", "a", "a", "a", "a", "a", "a",
      "a", "a", "a", "a", "a", "a", "a", "a", "a", "a", "a", "a", "a", "a",
      "a", "a", "a", "a", "a", "a", "a", "a", "a", "a", "a", "a", "a", "a",
      "a", "a", "a", "a", "a", "a", "a", "a", "a", "a", "a", "a", "a", "a",
      "a", "a", "a", "a", "a", "a", "a", "a", "a", "aa", "aa", "act", "act",
      "act", "active", "active", "address", "address", "address", "addresses",
      "adj-sid", "as", "as", "as", "as", "as", "as", "bb", "bgp", "bit",
      "client", "count", "description", "destinations", "direct", "direct",
      "direct", "displayed", "dn", "down", "down", "down", "entries", "flags",
      "flaps", "g1", "g2", "ge-0", "group", "group", "group", "groups",
      "holddown", "holdtime", "id", "id", "id", "id", "id", "id", "id", "id:",
      "in", "in", "in", "in", "in", "in", "in", "in", "in", "in", "in", "in",
      "in", "in", "in", "in", "in", "in", "in", "in", "in", "in", "in", "in",
      "in", "inet.0", "inet.3", "interface", "ip", "ip", "ip", "ip", "ip",
      "level", "local", "log", "lsi", "lsi", "lsi.0", "lsp", "lsp", "lsp",
      "lsp", "ma", "ma", "ma", "ma", "ma", "mode", "mpls", "mpls", "mpls.0",
      "name", "name", "name", "neighbor", "neighbor", "no", "no", "no", "no",
      "no", "no", "number", "p", "p", "p", "p", "p", "p", "p", "p", "p", "p",
      "p", "p", "p", "p", "p", "p", "p", "p", "p", "p", "p", "p", "p", "p",
      "p", "p", "p", "p", "p", "p", "p", "p", "p", "p", "p", "p", "p", "p",
      "p", "p", "p", "p", "p", "p", "p", "p", "p", "p", "p", "p", "p", "p",
      "p", "p", "p", "p", "p", "p", "p", "p", "p", "p", "p", "p", "p", "p",
      "p", "p", "p", "p", "p", "p", "p", "p", "p", "p", "p", "p", "p1",
      "peer", "peer", "peer", "peers", "pps", "prefixes", "priority",
      "receive", "route", "route", "route", "route", "routes",
      "routing-instance", "rsvp", "rsvp", "rt", "rt", "rt", "session",
      "session", "session", "sessions", "state", "static", "static", "str",
      "str", "to", "to", "to", "to", "tot", "transit", "transit", "transit",
      "transit", "transition", "transition", "transition", "transitions",
      "type", "up", "up", "up", "up", "up", "up", "up", "up", "up", "up",
      "up", "up", "up", "up", "vr", "x", "x", "x", "x", "x", "x", "x">>

ContainedIn ==
    <<"*[Direct]", "*[RSVP/7/1]", "*[Static/5]", "*[direct]", "*[rsvp/7/1]",
      "*[static/5]", "--VL--", "--vl--", "Adj-SID", "Adj-SID:",
      "Routing-Instance", "Routing-Instance:", "adj-sid", "adj-sid:", "ge-0",
      "ge-0,", "ge-1", "no-more", "no-resolve", "routing-instance",
      "routing-instance:", "*[RSVP/7/1]", "*[Static/5]", "*[rsvp/7/1]",
      "*[static/5]", "1/0", "1/1", "1/4/4/0", "I/O", "Up/Dn", "Up/Down",
      "i/o", "up/dn", "up/down", "(0", "0,", "0.1", "0.3", "01", "02", "05",
      "05:55:40", "05:55:40,", "1/0", "1/4/4/0", "10", "10.0.0.1", "10.0.0.2",
      "10.0.0.9", "20", "20.0", "40", "AA:02", "aa:01", "aa:02", "bb:01",
      "ge-0", "ge-0,", "inet.0", "inet.0:", "lsi.0", "lsi.0,", "mpls.0",
      "mpls.0:", "05:55:40,", "ge-0,", "lsi.0,", "10.0.0.1", "aa:01", "bb:01",
      "AA:02", "aa:02", "05:55:40", "05:55:40,", "05:55:40,", "(1",
      "*[RSVP/7/1]", "*[rsvp/7/1]", "0.1", "01", "1,", "1/0", "1/1",
      "1/4/4/0", "10", "10.0.0.1", "10.0.0.2", "10.0.0.9", "1d", "1d,", "a1",
      "aa:01", "b1", "bb:01", "c1", "d1", "e1", "g1", "g1,", "ge-1", "lsp1",
      "p1", "r1", "v1", "w1", "g1,", "10.0.0.1", "10.0.0.2", "10.0.0.9",
      "1d,", "(2", "02", "10.0.0.2", "2,", "20", "20.0", "AA:02", "P2MP",
      "a2", "aa:02", "b2", "c2", "d2", "e2", "g2", "g2,", "lsp2", "p2mp",
      "r2", "v2", "w2", "g2,", "20.0", "(3", "0.3", "3,", "a3", "b3", "c3",
      "d3", "e3", "inet.3", "inet.3:", "05:55:40", "05:55:40,", "1/4/4/0",
      "40", "a4", "b4", "c4", "d4", "e4", "05:55:40", "05:55:40,",
      "*[Static/5]", "*[static/5]", "05", "05:55:40", "05:55:40,",
      "*[RSVP/7/1]", "*[rsvp/7/1]", "10.0.0.9", "05:55:40", "05:55:40,",
      "AA:02", "Address:", "Adj-SID:", "Bit:", "Description:", "Direct:",
      "Flags:", "Group:", "Groups:", "Holdtime:", "ID:", "Interface:", "LSP:",
      "Level:", "Local:", "Peer:", "Peers:", "Priority:", "RSVP:",
      "Routing-Instance:", "State:", "Static:", "Type:", "aa:01", "aa:02",
      "address:", "addresses:", "adj-sid:", "bb:01", "bit:", "count:",
      "description:", "direct:", "entries:", "flags:", "flaps:", "group:",
      "groups:", "holdtime:", "id:", "inet.0:", "inet.3:", "interface:",
      "level:", "local:", "log:", "lsp:", "mode:", "mpls.0:", "name:",
      "neighbor:", "number:", "peer:", "peers:", "prefixes:", "priority:",
      "routing-instance:", "rsvp:", "state:", "static:", "transition:",
      "transitions:", "type:", "u@h>", "AA:02", "Active", "ActivePath",
      "ActivePath", "Address:", "Adj-SID:", "eBGP", "Bit:", "Description:",
      "*[Direct]", "Direct:", "Up/Dn", "Up/Down", "Flags:", "Group:",
      "Groups", "Groups:", "Groups:", "Holdtime:", "Adj-SID", "Adj-SID:",
      "ID:", "Adj-SID:", "Interface:", "LSP:", "LSPname", "Level:", "Local:",
      "*[RSVP/7/1]", "ActivePath", "BGP", "IP", "InPkt", "LSP", "LSP:",
      "LSPname", "OutPkt", "P2MP", "Parent", "Passive", "Paths", "Peer",
      "Peer:", "Peers", "Peers:", "Pop", "Priority", "Priority:", "RSVP",
      "RSVP:", "eBGP", "Peer:", "Peers", "Peers:", "Peers:", "Priority:",
      "*[RSVP/7/1]", "RSVP:", "Received", "Routing-Instance:", "State:",
      "*[Static/5]", "Static:", "Tot", "Total", "Total", "Transition",
      "Type:", "Up,", "Up/Dn", "Up/Down", "*[Static/5]", "*[static/5]",
      "ActivePath", "Administrative", "Cumulative", "Default", "Discard",
      "Establ", "Flags", "Flags:", "Interface", "Interface:", "Internal",
      "LSPname", "Labelin", "Labelout", "Last", "Local", "Local:", "Parent",
      "Passive", "Paths", "Routing-Instance", "Routing-Instance:", "State",
      "State:", "Static", "Static:", "Table", "Threading", "Total", "Transit",
      "Transition", "a1", "a2", "a3", "a4", "aa", "aa:01", "aa:02",
      "accepted", "act", "active", "active,", "activepath", "added",
      "address", "address:", "addresses", "addresses:", "adj-sid", "adj-sid:",
      "adjacency", "administrative", "advertised", "again", "ago", "arp",
      "as", "autonomous", "backup", "blank", "branch", "compare",
      "cumulative", "default", "destinations", "destinations,", "discard",
      "displayed", "displayed,", "establ", "flags", "flags:", "flaps",
      "flaps:", "garbage", "interface", "interface:", "internal", "labelin",
      "labelout", "last", "learned", "local", "local:", "lspname", "ma",
      "mac", "many", "master", "match", "name", "name:", "parent", "passive",
      "paths", "plain", "rate", "reason", "routing-instance",
      "routing-instance:", "state", "state:", "static", "static:", "status",
      "summary", "table", "threading", "total", "transit", "transition",
      "transition:", "transitions", "transitions:", "transmit",
      "unidirectional", "via", "aa:01", "aa:02", "active", "active,",
      "activepath", "active,", "activepath", "address:", "addresses",
      "addresses:", "addresses:", "adj-sid:", "Last", "Passive", "last",
      "master", "passive", "reason", "bb:01", "ebgp", "bit:", "clients",
      "count:", "description:", "destinations,", "*[direct]", "direct:",
      "unidirectional", "displayed,", "up/dn", "holddown", "holddown,",
      "up/down", "entries:", "flags:", "flaps:", "g1,", "g2,", "ge-0,",
      "group:", "groups", "groups:", "groups:", "holddown,", "holdtime:",
      "adj-sid", "adj-sid:", "hidden)", "id:", "idle", "midline",
      "unidirectional", "adj-sid:", "Administrative", "Labelin",
      "Routing-Instance", "Routing-Instance:", "Threading", "administrative",
      "again", "destinations", "destinations,", "indented", "inet.0",
      "inet.0:", "inet.3", "inet.3:", "ingress", "inpkt", "interface",
      "interface:", "internal", "labelin", "midline", "plain",
      "routing-instance", "routing-instance:", "threading", "inet.0:",
      "inet.3:", "interface:", "Description", "Description:", "description",
      "description:", "vip", "level:", "local:", "log:", "lsi.0", "lsi.0,",
      "lsi.0,", "lsp1", "lsp2", "lsp:", "lspname", "mac", "many", "master",
      "match", "summary", "mode:", "mpls.0", "mpls.0:", "mpls.0:", "LSPname",
      "lspname", "name:", "neighbor:", "neighbors", "Autonomous",
      "autonomous", "no-more", "no-resolve", "none", "unknown", "number:",
      "*[rsvp/7/1]", "Accepted", "Description", "Description:", "Expires",
      "Group", "Group:", "Groups", "Groups:", "Pop", "Suppressed", "Type",
      "Type:", "Up", "Up,", "Up/Dn", "Up/Down", "accepted", "activepath",
      "arp", "backup", "bgp", "compare", "description", "description:",
      "displayed", "displayed,", "ebgp", "expires", "export", "flaps",
      "flaps:", "group", "group:", "groups", "groups:", "inpkt", "ip", "lldp",
      "lsp", "lsp1", "lsp2", "lsp:", "lspname", "mpls", "mpls.0", "mpls.0:",
      "outpkt", "p1", "p2mp", "parent", "passive", "paths", "peer", "peer:",
      "peers", "peers:", "perm", "plain", "pop", "pps", "pps,", "prefixes",
      "prefixes:", "priority", "priority:", "prompt", "rsvp", "rsvp:",
      "suppressed", "type", "type:", "up", "up,", "up/dn", "up/down", "vip",
      "vrrp", "lsp1", "peer:", "peers", "peers:", "peers:", "pps,",
      "prefixes:", "priority:", "received", "route,", "router", "routes",
      "routes,", "routes,", "routing-instance:", "*[rsvp/7/1]", "rsvp:",
      "Advertised", "advertised", "export", "session,", "sessions",
      "sessions,", "sessions,", "state:", "*[static/5]", "static:",
      "Administrative", "administrative", "Autonomous", "autonomous", "tot",
      "total", "total", "transition", "transition:", "transitions",
      "transitions:", "transition:", "transitions", "transitions:",
      "transitions:", "type:", "Group", "Group:", "Groups", "Groups:",
      "Suppressed", "backup", "group", "group:", "groups", "groups:",
      "suppressed", "up,", "up/dn", "up/down", "vrrp", "Expires", "expires",
      "export", "extensive", "prefixes", "prefixes:", "text">>

ContainedPairs == {<<ContainedOf[i], ContainedIn[i]>> : i \in 1..Len(ContainedOf)}

Contains(w, sub) == w = sub \/ <<sub, w>> \in ContainedPairs

\* one token of s against a pattern element that stands for one word, where
\* the pattern goes on with whitespace or with $ on both sides of it: the
\* element matches the whole word
MatchesWord(ic, elem, w) ==
    CASE elem = "\\d+" ->
            w \in {"0", "01", "02", "05", "1", "10", "2", "20", "3", "4", "40",
                  "5", "7", "9"}
      [] elem = "\\S+" -> ~IsWs(w)
      [] elem = "[0-9a-f:]+" -> IsHexWord(IF ic THEN Lower(w) ELSE w)
      [] elem = "\\d+/\\d+" ->
            w \in {"1/0", "1/1"}
      [] elem = "sessions?," ->
            w \in {"session,", "sessions,"}
      [] elem = "clients?" ->
            w \in {"client", "clients"}
      [] elem = "\\d+\\.\\d+\\.\\d+\\.\\d+" ->
            w \in {"10.0.0.1", "10.0.0.2", "10.0.0.9"}
      [] elem = "\\d+," ->
            w \in {"0,", "1,", "2,", "3,"}
      [] elem = "sessions?" ->
            w \in {"session", "sessions"}
      [] elem = "\\S+," ->
            w \in {"0,", "05:55:40,", "1,", "1d,", "2,", "3,", "Up,", "active,",
                  "destinations,", "displayed,", "g1,", "g2,", "ge-0,",
                  "holddown,", "lsi.0,", "pps,", "route,", "routes,",
                  "session,", "sessions,", "up,"}
      [] elem = "\\S+:" ->
            w \in {"Address:", "Adj-SID:", "Bit:", "Description:", "Direct:",
                  "Flags:", "Group:", "Groups:", "Holdtime:", "ID:",
                  "Interface:", "LSP:", "Level:", "Local:", "Peer:", "Peers:",
                  "Priority:", "RSVP:", "Routing-Instance:", "State:",
                  "Static:", "Type:", "address:", "addresses:", "adj-sid:",
                  "bit:", "count:", "description:", "direct:", "entries:",
                  "flags:", "flaps:", "group:", "groups:", "holdtime:", "id:",
                  "inet.0:", "inet.3:", "interface:", "level:", "local:",
                  "log:", "lsp:", "mode:", "mpls.0:", "name:", "neighbor:",
                  "number:", "peer:", "peers:", "prefixes:", "priority:",
                  "routing-instance:", "rsvp:", "state:", "static:",
                  "transition:", "transitions:", "type:"}
      [] elem = "[A-Z][A-Za-z0-9-]+:" ->
            w \in {"Address:", "Adj-SID:", "Bit:", "Description:", "Direct:",
                  "Flags:", "Group:", "Groups:", "Holdtime:", "ID:",
                  "Interface:", "LSP:", "Level:", "Local:", "Peer:", "Peers:",
                  "Priority:", "RSVP:", "Routing-Instance:", "State:",
                  "Static:", "Type:"}
      [] elem = "routes?," ->
            w \in {"route,", "routes,"}
      [] elem = "\\(\\d+" ->
            w \in {"(0", "(1", "(2", "(3"}
      [] elem = "\\*\\[[^\\]]+\\]" ->
            w \in {"*[Direct]", "*[RSVP/7/1]", "*[Static/5]", "*[direct]",
                  "*[rsvp/7/1]", "*[static/5]"}
      [] elem = "Active|Establ|[A-Z]\\S+" ->
            w \in {"AA", "AA:02", "AS", "Accepted", "Act", "Active",
                  "ActivePath", "Address", "Address:", "Adj-SID", "Adj-SID:",
                  "Administrative", "Advertised", "Autonomous", "BGP", "Bit",
                  "Bit:", "Connect", "Cumulative", "DN", "Default",
                  "Description", "Description:", "Detect", "Direct", "Direct:",
                  "Discard", "Dn", "Down", "Egress", "Establ", "Event",
                  "Expires", "FF", "Flags", "Flags:", "From", "Group",
                  "Group:", "Groups", "Groups:", "Holdtime", "Holdtime:",
                  "I/O", "ID", "ID:", "IP", "Idle", "InPkt", "Ingress",
                  "Interface", "Interface:", "Internal", "LSP", "LSP:",
                  "LSPname", "Labelin", "Labelout", "Last", "Level", "Level:",
                  "Local", "Local:", "MAC", "Mode", "Number", "OutPkt", "P2MP",
                  "Parent", "Passive", "Paths", "Peer", "Peer:", "Peers",
                  "Peers:", "Pop", "Priority", "Priority:", "RSVP", "RSVP:",
                  "Receive", "Received", "Router", "Routing-Instance",
                  "Routing-Instance:", "Rt", "SHOW", "Seenself", "State",
                  "State:", "Static", "Static:", "Style", "Suppressed",
                  "Table", "Threading", "To", "Tot", "Total", "Transit",
                  "Transition", "Tue", "Type", "Type:", "Up", "Up,", "Up/Dn",
                  "Up/Down", "VR", "When"}
      [] OTHER -> IF ic THEN Lower(w) = Lower(elem) ELSE w = elem

\* the same for the last element of a pattern that does not end with $:
\* re.match and re.search do not look at what follows the match, and the
\* element matches the beginning of the word
MatchesStart(ic, elem, w) ==
    CASE elem = "\\d+" ->
            w \in {"0", "0,", "0.1", "0.3", "01", "02", "05", "05:55:40",
                  "05:55:40,", "1", "1,", "1/0", "1/1", "1/4/4/0", "10",
                  "10.0.0.1", "10.0.0.2", "10.0.0.9", "1d", "1d,", "2", "2,",
                  "20", "20.0", "3", "3,", "4", "40", "5", "7", "9"}
      [] elem = "\\S+" -> ~IsWs(w)
      [] elem = "clients?" ->
            w \in {"client", "clients"}
      [] elem = "sessions?" ->
            w \in {"session", "session,", "sessions", "sessions,"}
      [] elem = "Active|Establ|[A-Z]\\S+" ->
            w \in {"AA", "AA:02", "AS", "Accepted", "Act", "Active",
                  "ActivePath", "Address", "Address:", "Adj-SID", "Adj-SID:",
                  "Administrative", "Advertised", "Autonomous", "BGP", "Bit",
                  "Bit:", "Connect", "Cumulative", "DN", "Default",
                  "Description", "Description:", "Detect", "Direct", "Direct:",
                  "Discard", "Dn", "Down", "Egress", "Establ", "Event",
                  "Expires", "FF", "Flags", "Flags:", "From", "Group",
                  "Group:", "Groups", "Groups:", "Holdtime", "Holdtime:",
                  "I/O", "ID", "ID:", "IP", "Idle", "InPkt", "Ingress",
                  "Interface", "Interface:", "Internal", "LSP", "LSP:",
                  "LSPname", "Labelin", "Labelout", "Last", "Level", "Level:",
                  "Local", "Local:", "MAC", "Mode", "Number", "OutPkt", "P2MP",
                  "Parent", "Passive", "Paths", "Peer", "Peer:", "Peers",
                  "Peers:", "Pop", "Priority", "Priority:", "RSVP", "RSVP:",
                  "Receive", "Received", "Router", "Routing-Instance",
                  "Routing-Instance:", "Rt", "SHOW", "Seenself", "State",
                  "State:", "Static", "Static:", "Style", "Suppressed",
                  "Table", "Threading", "To", "Tot", "Total", "Transit",
                  "Transition", "Tue", "Type", "Type:", "Up", "Up,", "Up/Dn",
                  "Up/Down", "VR", "When"}
      [] OTHER -> IF ic THEN StartsWith(Lower(w), Lower(elem))
                  ELSE StartsWith(w, elem)

\* the same for the first element of a pattern that is searched: re.search
\* tries every character of the text as the start of a match, and the element
\* matches the end of the word
MatchesEnd(ic, elem, w) ==
    CASE elem = "\\d+" ->
            w \in {"(0", "(1", "(2", "(3", "0", "0.1", "0.3", "01", "02", "05",
                  "05:55:40", "1", "1/0", "1/1", "1/4/4/0", "10", "10.0.0.1",
                  "10.0.0.2", "10.0.0.9", "2", "20", "20.0", "3", "4", "40",
                  "5", "7", "9", "AA:02", "a1", "a2", "a3", "a4", "aa:01",
                  "aa:02", "b1", "b2", "b3", "b4", "bb:01", "c1", "c2", "c3",
                  "c4", "d1", "d2", "d3", "d4", "e1", "e2", "e3", "e4", "g1",
                  "g2", "ge-0", "ge-1", "inet.0", "inet.3", "lsi.0", "lsp1",
                  "lsp2", "mpls.0", "p1", "r1", "r2", "v1", "v2", "w1", "w2"}
      [] elem = "\\S+" -> ~IsWs(w)
      [] OTHER -> IF ic THEN EndsWith(Lower(w), Lower(elem))
                  ELSE EndsWith(w, elem)

\* the value of after at the greatest k where it is a match: what a greedy
\* quantifier that takes k tokens ends with
LastMatch(after) ==
    IF \A k \in DOMAIN after : after[k] = NoMatch THEN NoMatch
    ELSE after[CHOOSE k \in DOMAIN after :
                  /\ after[k] # NoMatch
                  /\ \A m \in DOMAIN after : after[m] # NoMatch => m <= k]

\* the value of after at the least k where it is a match: what a lazy
\* quantifier that ends at token k ends with
FirstMatch(after) ==
    IF \A k \in DOMAIN after : after[k] = NoMatch THEN NoMatch
    ELSE after[CHOOSE k \in DOMAIN after :
                  /\ after[k] # NoMatch
                  /\ \A m \in DOMAIN after : after[m] # NoMatch => k <= m]

\* the least element of a set of positions (0: none)
FirstOf(positions) ==
    IF positions = {} THEN 0
    ELSE CHOOSE i \in positions : \A m \in positions : i <= m

\* The position after the match of pat[j..] at position i of s, or NoMatch.
\* Quantifiers are greedy and give back one token at a time.
RECURSIVE MatchRe(_, _, _, _, _)
MatchRe(ic, pat, j, s, i) ==
    IF j > Len(pat) THEN i
    ELSE IF pat[j] \in {"\\s+", "\\s*"} THEN
        LastMatch([k \in (IF pat[j] = "\\s+" THEN 1 ELSE 0)..WsRun(s, i) |->
                      MatchRe(ic, pat, j + 1, s, i + k)])
    ELSE IF pat[j] = "\\S*" THEN
        LastMatch([k \in 0..(IF i <= Len(s) /\ ~IsWs(s[i]) THEN 1 ELSE 0) |->
                      MatchRe(ic, pat, j + 1, s, i + k)])
    ELSE IF pat[j] = "[^,]+," THEN
        FirstMatch([k \in i..Len(s) |->
                      IF /\ \A m \in i..(k - 1) : ~EndsWithComma(s[m]) /\ s[m] # NL
                         /\ EndsWithComma(s[k])
                      THEN MatchRe(ic, pat, j + 1, s, k + 1) ELSE NoMatch])
    ELSE IF pat[j] = ".+?," THEN
        FirstMatch([k \in i..Len(s) |->
                      IF (\A m \in i..k : s[m] # NL) /\ EndsWithComma(s[k])
                      THEN MatchRe(ic, pat, j + 1, s, k + 1) ELSE NoMatch])
    ELSE IF pat[j] = ".+?" THEN
        FirstMatch([k \in (i + 1)..(Len(s) + 1) |->
                      IF \A m \in i..(k - 1) : s[m] # NL
                      THEN MatchRe(ic, pat, j + 1, s, k) ELSE NoMatch])
    ELSE IF pat[j] = ".+" THEN
        LastMatch([k \in (i + 1)..(Len(s) + 1) |->
                      IF (\A m \in i..(k - 1) : s[m] # NL)
                         /\ (k = Len(s) + 1 \/ s[k] = NL)
                      THEN MatchRe(ic, pat, j + 1, s, k) ELSE NoMatch])
    ELSE IF pat[j] = "$" THEN
        IF i = Len(s) + 1 \/ (i <= Len(s) /\ s[i] = NL)
        THEN MatchRe(ic, pat, j + 1, s, i) ELSE NoMatch
    ELSE
        IF i <= Len(s)
           /\ (IF j = Len(pat) THEN MatchesStart(ic, pat[j], s[i])
               ELSE MatchesWord(ic, pat[j], s[i]))
        THEN MatchRe(ic, pat, j + 1, s, i + 1) ELSE NoMatch

\* the elements of a pattern that do not stand for one word
IsQuantified(elem) ==
    elem \in {"\\s+", "\\s*", "\\S*", "[^,]+,", ".+?", ".+?,", ".+", "$"}

\* The position after the match of pat that re.search finds from token i of
\* s on, or NoMatch: the match starts at the token or inside it, where the
\* first element matches the end of the word.
MatchFrom(ic, pat, s, i) ==
    IF ~IsQuantified(pat[1])
       /\ ~(i <= Len(s) /\ Len(pat) > 1 /\ MatchesEnd(ic, pat[1], s[i]))
    THEN NoMatch
    ELSE MatchRe(ic, pat, IF IsQuantified(pat[1]) THEN 1 ELSE 2, s,
                 IF IsQuantified(pat[1]) THEN i ELSE i + 1)

\* the leftmost position >= from where pat matches (0: none)
SearchRe(ic, pat, s, from) ==
    FirstOf({i \in from..(Len(s) + 1) : MatchFrom(ic, pat, s, i) # NoMatch})

\* the same with re.IGNORECASE, as everywhere in command_segmenter.py
MatchAt(pat, j, s, i) ==
    IF j = 1 THEN MatchFrom(TRUE, pat, s, i) ELSE MatchRe(TRUE, pat, j, s, i)

\* the leftmost position >= from where pat matches (0: none)
SearchFrom(pat, s, from) == SearchRe(TRUE, pat, s, from)

\* \S+@\S+> at position i, at the start of a line or within it
PromptAt_midline(s, i, base) ==
    /\ i <= Len(s)
    /\ IsPromptWord(s[i])

\* ^\S+@\S+>  at position i (re.MULTILINE): i starts a line, or starts the
\* searched string, which begins at position base
PromptAt(s, i, base) ==
    /\ i <= Len(s)
    /\ i = base \/ (i > base /\ s[i - 1] = NL)
    /\ IsPromptWord(s[i])

\* (.*?)(?=^\S+@\S+>|\Z) from position q: the position where the lazy group
\* stops, the first prompt at a line start or the end of the text
UntilPrompt(s, q) ==
    LET stops == {i \in q..Len(s) : PromptAt(s, i, 1)}
    IN  IF stops = {} THEN Len(s) + 1
        ELSE CHOOSE i \in stops : \A m \in stops : i <= m

(***************************************************************************)
(* command_segmenter.py                                                    *)
(***************************************************************************)

\* TrimBlock without the test len(lines) > 1, as in the ARP extractor
TrimBlock_unguarded(matched) ==
    Some(Strip(JoinLines(Tail(SplitLines(RSplitHead(Strip(matched)))))))

\* output = output.strip(); output = output.rsplit("\n", 1)[0];
\* lines = output.split('\n');
\* '\n'.join(lines[1:]).strip() if len(lines) > 1, else None
TrimBlock(matched) ==
    LET output == RSplitHead(Strip(matched))
        lines == SplitLines(output)
    IN  IF Len(lines) > 1 THEN Some(Strip(JoinLines(Tail(lines)))) ELSE None

\* ExtractUntilPrompt that takes the transcript from its start when the
\* command is not found
ExtractUntilPrompt_always(pattern, text) ==
    LET p == SearchFrom(pattern, text, 1)
        q == MatchAt(pattern, 1, text, p)
    IN  IF p = 0 THEN TrimBlock(SubSeq(text, 1, UntilPrompt(text, 2) - 1))
        ELSE TrimBlock(SubSeq(text, p, UntilPrompt(text, q) - 1))

\* re.search(command + r"(.*?)" + r"(?=^\S+@\S+>|\Z)", terminal_output,
\*           re.DOTALL | re.IGNORECASE | re.MULTILINE) and the trimming of
\* match.group(0): the body the extractors 2..19, 21 and 22 share
ExtractUntilPrompt(pattern, text) ==
    LET p == SearchFrom(pattern, text, 1)
        q == MatchAt(pattern, 1, text, p)
    IN  IF p = 0 THEN None
        ELSE TrimBlock(SubSeq(text, p, UntilPrompt(text, q) - 1))

\* r"Total\s+entries:\s*\d+"
TotalEntriesPattern == <<"Total", "\\s+", "entries:", "\\s*", "\\d+">>

\* re.finditer: the successive non-overlapping matches from position from on
RECURSIVE FindIter(_, _, _)
FindIter(pattern, text, from) ==
    LET p == SearchFrom(pattern, text, from)
        q == MatchAt(pattern, 1, text, p)
    IN  IF p = 0 THEN <<>>
        ELSE <<[start |-> p, end |-> q]>> \o FindIter(pattern, text, q)

\* NextPromptAfter without re.MULTILINE: ^ is the start of the searched
\* string alone
NextPromptAfter_single_line(text, q) ==
    IF PromptAt(text, q, q) THEN q ELSE Len(text) + 1

\* re.search(r"^\S+@\S+>", terminal_output[match.end():], re.MULTILINE):
\* the end of the block of a match that ends at q
NextPromptAfter(text, q) ==
    LET stops == {i \in q..Len(text) : PromptAt(text, i, q)}
    IN  IF stops = {} THEN Len(text) + 1
        ELSE CHOOSE i \in stops : \A m \in stops : i <= m

extract_show_arp_output_1(text) ==
    LET pattern ==
            <<"show", "\\s+", "arp", "\\s+", "no-resolve", "\\s*", "|",
              "\\s*", "no-more">>
        p == SearchFrom(pattern, text, 1)
        q == MatchAt(pattern, 1, text, p)
        tot == SearchFrom(TotalEntriesPattern, text, q)
        end == MatchAt(TotalEntriesPattern, 1, text, tot)
        \* match.group(0): the pattern ends with \d+, and the block ends after
        \* the digits that the last word of the match starts with
        block == SubSeq(text, p, end - 2) \o <<DigitsAtStart(text[end - 1])>>
        lines == SplitLines(Strip(block))
    IN  IF p = 0 \/ tot = 0 THEN None
        ELSE Some(Strip(JoinLines(Tail(lines))))

extract_show_vrrp_summary_output_2(text) ==
    ExtractUntilPrompt(
        <<"show", "\\s+", "vrrp", "\\s+", "summary", "\\s*", "|", "\\s*",
          "no-more">>,
        text)

extract_show_lldp_neighbors_output_3(text) ==
    ExtractUntilPrompt(
        <<"show", "\\s+", "lldp", "\\s+", "neighbors", "\\s*", "|", "\\s*",
          "no-more">>,
        text)

extract_show_bfd_session_output_4(text) ==
    ExtractUntilPrompt(
        <<"show", "\\s+", "bfd", "\\s+", "session", "\\s*", "|", "\\s*",
          "no-more">>,
        text)

extract_show_rsvp_neighbor_output_5(text) ==
    ExtractUntilPrompt(
        <<"show", "\\s+", "rsvp", "\\s+", "neighbor", "\\s*", "|", "\\s*",
          "no-more">>,
        text)

extract_show_rsvp_session_output_6(text) ==
    ExtractUntilPrompt(
        <<"show", "\\s+", "rsvp", "\\s+", "session", "\\s*", "|", "\\s*",
          "no-more">>,
        text)

extract_show_route_table_inet0_output_7(text) ==
    ExtractUntilPrompt(
        <<"show", "\\s+", "route", "\\s+", "table", "\\s+", "inet.0", "\\s*",
          "|", "\\s*", "no-more">>,
        text)

extract_show_route_table_inet3_output_8(text) ==
    ExtractUntilPrompt(
        <<"show", "\\s+", "route", "\\s+", "table", "\\s+", "inet.3", "\\s*",
          "|", "\\s*", "no-more">>,
        text)

extract_show_route_table_mpls0_output_9(text) ==
    ExtractUntilPrompt(
        <<"show", "\\s+", "route", "\\s+", "table", "\\s+", "mpls.0", "\\s*",
          "|", "\\s*", "no-more">>,
        text)

extract_show_mpls_interface_output_10(text) ==
    ExtractUntilPrompt(
        <<"show", "\\s+", "mpls", "\\s+", "interface", "\\s*", "|", "\\s*",
          "no-more">>,
        text)

extract_show_mpls_lsp_output_11(text) ==
    ExtractUntilPrompt(
        <<"show", "\\s+", "mpls", "\\s+", "lsp", "\\s*", "|", "\\s*",
          "no-more">>,
        text)

extract_show_mpls_lsp_p2mp_output_12(text) ==
    ExtractUntilPrompt(
        <<"show", "\\s+", "mpls", "\\s+", "lsp", "\\s+", "p2mp", "\\s*", "|",
          "\\s*", "no-more">>,
        text)

extract_show_bgp_summary_output_13(text) ==
    ExtractUntilPrompt(
        <<"show", "\\s+", "bgp", "\\s+", "summary", "\\s*", "|", "\\s*",
          "no-more">>,
        text)

extract_show_bgp_neighbor_output_14(text) ==
    ExtractUntilPrompt(
        <<"show", "\\s+", "bgp", "\\s+", "neighbor", "\\s*", "|", "\\s*",
          "no-more">>,
        text)

extract_show_isis_adjacency_extensive_output_15(text) ==
    ExtractUntilPrompt(
        <<"show", "\\s+", "isis", "\\s+", "adjacency", "\\s+", "extensive",
          "\\s*", "|", "\\s*", "no-more">>,
        text)

extract_show_route_summary_output_16(text) ==
    ExtractUntilPrompt(
        <<"show", "\\s+", "route", "\\s+", "summary", "\\s*", "|", "\\s*",
          "no-more">>,
        text)

extract_show_rsvp_session_match_dn_output_17(text) ==
    ExtractUntilPrompt(
        <<"show", "\\s+", "rsvp", "\\s+", "session", "\\s*", "|", "\\s*",
          "match", "\\s+", "DN", "\\s*", "|", "\\s*", "no-more">>,
        text)

extract_show_mpls_lsp_unidirectional_match_dn_output_18(text) ==
    ExtractUntilPrompt(
        <<"show", "\\s+", "mpls", "\\s+", "lsp", "\\s+", "unidirectional",
          "\\s*", "|", "\\s*", "match", "\\s+", "Dn", "\\s*", "|", "\\s*",
          "no-more">>,
        text)

\* the first-occurrence extractor without the end-of-line anchor
first_output_19_unanchored(text) ==
    ExtractUntilPrompt(<<"show", "\\s+", "rsvp", "\\s+", "session">>, text)

extract_show_rsvp_session_first_output_19(text) ==
    ExtractUntilPrompt(
        <<"show", "\\s+", "rsvp", "\\s+", "session", "\\s*", "$">>,
        text)

\* the list matches of the second-occurrence extractor after its loop: the
\* block of every match of the command pattern, trimmed
matches(text) ==
    LET pattern ==
            <<"show", "\\s+", "rsvp", "\\s+", "session", "\\s*", "$">>
        found == FindIter(pattern, text, 1)
    IN  [k \in 1..Len(found) |->
            TrimBlock(SubSeq(text, found[k].start,
                             NextPromptAfter(text, found[k].end) - 1))]

extract_show_rsvp_session_second_output_20(text) ==
    IF Len(matches(text)) >= 2 THEN matches(text)[2] ELSE None

extract_show_rsvp_session_ma_output_21(text) ==
    ExtractUntilPrompt(
        <<"show", "\\s+", "rsvp", "\\s+", "session", "\\s+", "|", "\\s+",
          "ma", "\\s+", "no-more">>,
        text)

extract_show_mpls_lsp_unidirectional_output_22(text) ==
    ExtractUntilPrompt(
        <<"show", "\\s+", "mpls", "\\s+", "lsp", "\\s+", "unidirectional",
          "\\s*", "|", "\\s*", "no-more">>,
        text)

\* the extractor number n of command_segmenter.py
Extract(n, text) ==
    CASE n = 1 -> extract_show_arp_output_1(text)
      [] n = 2 -> extract_show_vrrp_summary_output_2(text)
      [] n = 3 -> extract_show_lldp_neighbors_output_3(text)
      [] n = 4 -> extract_show_bfd_session_output_4(text)
      [] n = 5 -> extract_show_rsvp_neighbor_output_5(text)
      [] n = 6 -> extract_show_rsvp_session_output_6(text)
      [] n = 7 -> extract_show_route_table_inet0_output_7(text)
      [] n = 8 -> extract_show_route_table_inet3_output_8(text)
      [] n = 9 -> extract_show_route_table_mpls0_output_9(text)
      [] n = 10 -> extract_show_mpls_interface_output_10(text)
      [] n = 11 -> extract_show_mpls_lsp_output_11(text)
      [] n = 12 -> extract_show_mpls_lsp_p2mp_output_12(text)
      [] n = 13 -> extract_show_bgp_summary_output_13(text)
      [] n = 14 -> extract_show_bgp_neighbor_output_14(text)
      [] n = 15 -> extract_show_isis_adjacency_extensive_output_15(text)
      [] n = 16 -> extract_show_route_summary_output_16(text)
      [] n = 17 -> extract_show_rsvp_session_match_dn_output_17(text)
      [] n = 18 -> extract_show_mpls_lsp_unidirectional_match_dn_output_18(text)
      [] n = 19 -> extract_show_rsvp_session_first_output_19(text)
      [] n = 20 -> extract_show_rsvp_session_second_output_20(text)
      [] n = 21 -> extract_show_rsvp_session_ma_output_21(text)
      [] n = 22 -> extract_show_mpls_lsp_unidirectional_output_22(text)

Extractors == 1..22
PromptDelimited == Extractors \ {1}

(***************************************************************************)
(* Transcripts.  A transcript is a sequence of command blocks: a prompt    *)
(* line carrying the command as typed, then the lines the device printed.  *)
(***************************************************************************)
Prompt == "u@h>"

\* the command each extractor looks for, as typed at the prompt
CommandWords(n) ==
    CASE n = 1 -> <<"show", "arp", "no-resolve", "|", "no-more">>
      [] n = 2 -> <<"show", "vrrp", "summary", "|", "no-more">>
      [] n = 3 -> <<"show", "lldp", "neighbors", "|", "no-more">>
      [] n = 4 -> <<"show", "bfd", "session", "|", "no-more">>
      [] n = 5 -> <<"show", "rsvp", "neighbor", "|", "no-more">>
      [] n = 6 -> <<"show", "rsvp", "session", "|", "no-more">>
      [] n = 7 -> <<"show", "route", "table", "inet.0", "|", "no-more">>
      [] n = 8 -> <<"show", "route", "table", "inet.3", "|", "no-more">>
      [] n = 9 -> <<"show", "route", "table", "mpls.0", "|", "no-more">>
      [] n = 10 -> <<"show", "mpls", "interface", "|", "no-more">>
      [] n = 11 -> <<"show", "mpls", "lsp", "|", "no-more">>
      [] n = 12 -> <<"show", "mpls", "lsp", "p2mp", "|", "no-more">>
      [] n = 13 -> <<"show", "bgp", "summary", "|", "no-more">>
      [] n = 14 -> <<"show", "bgp", "neighbor", "|", "no-more">>
      [] n = 15 -> <<"show", "isis", "adjacency", "extensive", "|", "no-more">>
      [] n = 16 -> <<"show", "route", "summary", "|", "no-more">>
      [] n = 17 -> <<"show", "rsvp", "session", "|", "match", "DN", "|", "no-more">>
      [] n = 18 -> <<"show", "mpls", "lsp", "unidirectional", "|", "match", "Dn",
                     "|", "no-more">>
      [] n = 19 -> <<"show", "rsvp", "session">>
      [] n = 20 -> <<"show", "rsvp", "session">>
      [] n = 21 -> <<"show", "rsvp", "session", "|", "ma", "no-more">>
      [] n = 22 -> <<"show", "mpls", "lsp", "unidirectional", "|", "no-more">>

\* the extractors 19 and 20 look for the command with nothing after it
IsBare(n) == n \in {19, 20}

\* words separated by single runs of blanks
RECURSIVE Spaced(_)
Spaced(words) ==
    IF Len(words) = 0 THEN <<>>
    ELSE IF Len(words) = 1 THEN words
    ELSE <<words[1], SP>> \o Spaced(Tail(words))

CommandLine(n) == <<Prompt, SP>> \o Spaced(CommandWords(n))
OtherLine == <<Prompt, SP, "show", SP, "version">>
TotalLine == <<"Total", SP, "entries:", SP, "2">>

\* the text of output line j of block k: every output line is distinct
BodyWord(k, j) ==
    <<<<"a1", "a2", "a3", "a4">>, <<"b1", "b2", "b3", "b4">>,
      <<"c1", "c2", "c3", "c4">>, <<"d1", "d2", "d3", "d4">>,
      <<"e1", "e2", "e3", "e4">>>>[k][j]

BodyKinds(n) == IF n = 1 THEN {"text", "blank", "total"} ELSE {"text", "blank"}

BodyLine(kind, k, j) ==
    CASE kind = "text" -> <<BodyWord(k, j)>>
      [] kind = "blank" -> <<>>
      [] kind = "total" -> TotalLine
      [] kind = "midline" -> <<BodyWord(k, j), SP, Prompt, SP, "show">>
      [] kind = "indented" -> <<SP, SP, Prompt, SP, BodyWord(k, j)>>

\* the output lines j.. of block k, each after a newline
RECURSIVE Body(_, _, _)
Body(shape, k, j) ==
    IF j > Len(shape) THEN <<>>
    ELSE <<NL>> \o BodyLine(shape[j], k, j) \o Body(shape, k, j + 1)

Shapes(n) == UNION {[1..m -> BodyKinds(n)] : m \in 0..MaxBody}

Posts == {"end", "prompt", "other", "again"}

\* what follows the block under test
PostText(n, post) ==
    CASE post = "end" -> <<>>
      [] post = "prompt" -> <<NL, Prompt>>
      [] post = "other" -> <<NL>> \o OtherLine \o <<NL, "v2">>
      [] post = "again" ->
            <<NL>> \o CommandLine(n) \o <<NL, "w1", NL, "w2">>
                \o (IF n = 1 THEN <<NL>> \o TotalLine ELSE <<>>)

\* one block of command n with the output lines of shape, after an optional
\* earlier command and followed by post
SegTranscript(n, pre, shape, post) ==
    (IF pre THEN OtherLine \o <<NL, "v1", NL>> ELSE <<>>)
        \o CommandLine(n) \o Body(shape, 1, 1) \o PostText(n, post)

SegTranscripts ==
    UNION {{SegTranscript(n, pre, shape, post) :
                pre \in BOOLEAN, shape \in Shapes(n), post \in Posts} :
           n \in Extractors}

\* the rsvp session family: the bare command and its three filtered forms
RsvpForms == {6, 17, 19, 21}

\* blocks k.. of a transcript of the family; a block is <<form, lines>>
RECURSIVE RsvpBlocks(_, _)
RsvpBlocks(blocks, k) ==
    IF k > Len(blocks) THEN <<>>
    ELSE (IF k = 1 THEN <<>> ELSE <<NL>>)
            \o CommandLine(blocks[k][1])
            \o Body([j \in 1..blocks[k][2] |-> "text"], k, 1)
            \o RsvpBlocks(blocks, k + 1)

RsvpTranscripts ==
    {RsvpBlocks(blocks, 1) :
        blocks \in UNION {[1..m -> RsvpForms \X {0, MaxBody}] : m \in 1..MaxOccur}}

(***************************************************************************)
(* The segmenter as a state machine: a caller holds a transcript and calls *)
(* one of the extractors on it.  The extractors read nothing but their     *)
(* argument, so a behaviour is one call.                                   *)
(***************************************************************************)
CallExtract(n) ==
    /\ extractor = 0
    /\ extractor' = n
    /\ segment' = Extract(n, terminal_output)
    /\ UNCHANGED <<terminal_output, parseVars, diffVars, callVars>>

\* nothing parsed and nothing compared yet
NoResult == [raised |-> FALSE, value |-> <<>>]
NoParse ==
    /\ parser = 0 /\ result = NoResult /\ genie_outcome = NoResult
    /\ returned = <<>> /\ frames = <<>> /\ heap = <<>>
NoDiff ==
    /\ pre_file = <<>> /\ post_file = <<>>
    /\ pre_data = <<>> /\ post_data = <<>>
    /\ comparison = [kind |-> "dict", str |-> "", items |-> <<>>]
    /\ pc = "idle"

NextSeg == \E n \in Extractors : CallExtract(n)

InitSeg ==
    /\ terminal_output \in SegTranscripts
    /\ extractor = 0
    /\ segment = None
    /\ NoParse /\ NoDiff

InitRsvp ==
    /\ terminal_output \in RsvpTranscripts
    /\ extractor = 0
    /\ segment = None
    /\ NoParse /\ NoDiff

SpecSeg == InitSeg /\ [][NextSeg]_vars
SpecRsvp == InitRsvp /\ [][NextSeg]_vars

(***************************************************************************)
(* The transcript seen line by line, as the specification describes it.    *)
(***************************************************************************)
LinesOf(text) == SplitLines(text)
WordsOf(line) == SelectSeq(line, LAMBDA x : ~IsWs(x))

\* a line that starts with a prompt
IsPromptLine(line) == Len(line) > 0 /\ IsPromptWord(line[1])

\* a line that carries the command of extractor n
IsCommandLine(n, line) ==
    LET w == WordsOf(line)
        c == CommandWords(n)
    IN  IF IsBare(n)
        THEN Len(w) >= Len(c) /\ SubSeq(w, Len(w) - Len(c) + 1, Len(w)) = c
        ELSE \E i \in 1..(Len(w) - Len(c) + 1) : SubSeq(w, i, i + Len(c) - 1) = c

\* the lines of text that carry the command of extractor n
Occurrences(n, text) ==
    {i \in 1..Len(LinesOf(text)) : IsCommandLine(n, LinesOf(text)[i])}

\* the k-th smallest element of a set of numbers
RECURSIVE Kth(_, _)
Kth(S, k) ==
    LET least == CHOOSE i \in S : \A m \in S : i <= m
    IN  IF k = 1 THEN least ELSE Kth(S \ {least}, k - 1)

\* the occurrence extractor n is after: the second for extractor 20
Wanted(n) == IF n = 20 THEN 2 ELSE 1

HasWanted(n, text) == Cardinality(Occurrences(n, text)) >= Wanted(n)

\* the command line extractor n is about
MatchedLine(n, text) == Kth(Occurrences(n, text), Wanted(n))

\* the line of the first prompt after line c (one past the last line: none)
BlockEnd(text, c) ==
    LET lines == LinesOf(text)
        stops == {i \in (c + 1)..Len(lines) : IsPromptLine(lines[i])}
    IN  IF stops = {} THEN Len(lines) + 1
        ELSE CHOOSE i \in stops : \A m \in stops : i <= m

\* the output of the command on line c: the lines up to the next prompt
BlockText(text, c) ==
    JoinLines(SubSeq(LinesOf(text), c + 1, BlockEnd(text, c) - 1))

\* that output without the blank lines around it
BlockOf(text, c) == Strip(BlockText(text, c))

\* a occurs in b as a run of consecutive tokens
IsInfix(a, b) ==
    \E i \in 1..(Len(b) - Len(a) + 1) : SubSeq(b, i, i + Len(a) - 1) = a

Called == extractor # 0

(***************************************************************************)
(* C1.  For every prompt-delimited extractor and every transcript in which *)
(* its command occurs with some output, the segment returned is exactly    *)
(* the lines after the command line up to the next prompt line (or the     *)
(* end of the transcript), blank lines around them trimmed: the last       *)
(* output line before the next prompt is part of it.                       *)
(***************************************************************************)
C1_SegmentIsWholeBlock ==
    (/\ extractor \in PromptDelimited
     /\ HasWanted(extractor, terminal_output)
     /\ BlockOf(terminal_output, MatchedLine(extractor, terminal_output)) # <<>>)
    => segment = Some(BlockOf(terminal_output,
                              MatchedLine(extractor, terminal_output)))

(***************************************************************************)
(* C2.  For every extractor, the ARP one included, the segment returned    *)
(* holds no text located at or after the first prompt line that follows    *)
(* the matched command line: it lies within the output of that command.    *)
(***************************************************************************)
C2_NothingPastNextPrompt ==
    (Called /\ segment.some)
    => /\ HasWanted(extractor, terminal_output)
       /\ IsInfix(segment.text,
                  BlockText(terminal_output,
                            MatchedLine(extractor, terminal_output)))

(***************************************************************************)
(* C3.  For every extractor and every transcript with no occurrence of its *)
(* command, the extractor returns None.                                    *)
(***************************************************************************)
C3_AbsentWhenNoOccurrence ==
    (Called /\ Occurrences(extractor, terminal_output) = {})
    => segment = None

\* the vrrp extractor ran on a transcript that holds another command and two
\* lines of its output
C3_Witness ==
    /\ extractor = 2
    /\ Occurrences(2, terminal_output) = {}
    /\ Occurrences(6, terminal_output) # {}
    /\ \E i \in 1..Len(terminal_output) : terminal_output[i] = "a2"
    /\ segment = None

(***************************************************************************)
(* C6.  For every prompt-delimited extractor, when the matched command     *)
(* line is followed by no output (the next non-blank line is a prompt, or  *)
(* the transcript ends), the result is None and not an empty string.       *)
(***************************************************************************)
C6_NoBodyIsAbsent ==
    (/\ extractor \in PromptDelimited
     /\ HasWanted(extractor, terminal_output)
     /\ BlockOf(terminal_output, MatchedLine(extractor, terminal_output)) = <<>>)
    => segment = None

\* the vrrp command is followed by a blank line and then the next prompt
C6_Witness ==
    /\ extractor = 2
    /\ \E i \in 1..(Len(terminal_output) - 3) :
          /\ terminal_output[i] = "no-more"
          /\ terminal_output[i + 1] = NL
          /\ terminal_output[i + 2] = NL
          /\ terminal_output[i + 3] = Prompt
    /\ segment = None

(***************************************************************************)
(* C4.  In a transcript that holds the bare 'show rsvp session' command    *)
(* and its filtered forms, in any order, the extractor of one form never   *)
(* returns output of a block of another form: no output line of such a     *)
(* block is in the segment.                                                *)
(***************************************************************************)
RsvpFamily == {6, 17, 19, 20, 21}

\* the command form an extractor of the family is for
FormOf(n) == IF n = 20 THEN 19 ELSE n

\* the command lines of the family that are of another form than extractor n
OtherFormLines(n, text) ==
    UNION {Occurrences(f, text) : f \in RsvpForms \ {FormOf(n)}}

WordSet(s) == {s[i] : i \in {j \in 1..Len(s) : ~IsWs(s[j])}}

C4_NoBlockOfAnotherForm ==
    (extractor \in RsvpFamily /\ segment.some)
    => \A c \in OtherFormLines(extractor, terminal_output) :
          WordSet(segment.text) \cap WordSet(BlockText(terminal_output, c)) = {}

\* the bare command comes after a filtered form that printed two lines, and
\* the first-occurrence extractor returned some output
C4_Witness ==
    /\ extractor = 19
    /\ 1 \in Occurrences(6, terminal_output)
    /\ Len(WordsOf(BlockText(terminal_output, 1))) = 2
    /\ segment.some
    /\ segment.text # <<>>

(***************************************************************************)
(* C5.  Occurrence selection: the first-occurrence extractor returns the   *)
(* block of the first bare 'show rsvp session' command line; the second-   *)
(* occurrence extractor returns the block of the second one, never that of *)
(* the first or of a third, and None when there are fewer than two.        *)
(***************************************************************************)
C5_OccurrenceSelection ==
    LET occ == Occurrences(19, terminal_output)
        k == IF extractor = 19 THEN 1 ELSE 2
    IN  /\ (extractor \in {19, 20} /\ Cardinality(occ) >= k
              /\ BlockOf(terminal_output, Kth(occ, k)) # <<>>)
           => segment = Some(BlockOf(terminal_output, Kth(occ, k)))
        /\ (extractor = 20 /\ Cardinality(occ) < 2) => segment = None

(***************************************************************************)
(* mx80_models.py: the collections the parsers return, as constructed      *)
(* with no argument (the zero value of each command).                      *)
(***************************************************************************)
ShowArpNoResolve == [total_entries |-> 0, entries |-> <<>>]
ShowVrrpSummary == [entries |-> <<>>]
ShowLldpNeighbors == [entries |-> <<>>]
ShowBfdSession ==
    [entries |-> <<>>, total_sessions |-> 0, total_clients |-> 0,
     cumulative_transmit_rate |-> "", cumulative_receive_rate |-> ""]
ShowRsvpNeighbor == [entries |-> <<>>, total_neighbors |-> 0]
\* a ShowRsvpSession that has an Ingress Section from the start
ShowRsvpSession_with_ingress ==
    [ingress |-> Some([section_type |-> "Ingress", total_sessions |-> 0,
                       entries |-> <<>>, total_displayed |-> 0, total_up |-> 0,
                       total_down |-> 0]),
     egress |-> None, transit |-> None]

ShowRsvpSession == [ingress |-> None, egress |-> None, transit |-> None]
ShowRouteTableInet0 ==
    [total_destinations |-> 0, total_routes |-> 0, active_routes |-> 0,
     holddown_routes |-> 0, hidden_routes |-> 0, entries |-> <<>>]
ShowRouteTableInet3 ==
    [total_destinations |-> 0, total_routes |-> 0, active_routes |-> 0,
     holddown_routes |-> 0, hidden_routes |-> 0, entries |-> <<>>]
ShowRouteTableMpls0 ==
    [total_destinations |-> 0, total_routes |-> 0, active_routes |-> 0,
     holddown_routes |-> 0, hidden_routes |-> 0, entries |-> <<>>]
ShowMplsInterface == [entries |-> <<>>]
ShowMplsLsp == [ingress |-> None, egress |-> None, transit |-> None]
ShowMplsLspP2mp == [ingress |-> None, egress |-> None, transit |-> None]
ShowBgpSummary ==
    [threading_mode |-> "", default_ebgp_mode |-> "", groups |-> 0,
     peers |-> 0, down_peers |-> 0, tables |-> <<>>, peer_list |-> <<>>]
ShowBgpNeighbor == [neighbors |-> <<>>]
ShowIsisAdjacencyExtensive == [entries |-> <<>>]
ShowRouteSummary ==
    [autonomous_system |-> "", router_id |-> "", highwater |-> None,
     tables |-> <<>>]

(***************************************************************************)
(* mx80_parser_engine.py.  A call either returns a value or raises.        *)
(***************************************************************************)
Return(v) == [raised |-> FALSE, value |-> v]
Raise(e) == [raised |-> TRUE, value |-> e]

\* int() of a word of decimal digits
ToInt(w) ==
    CASE w = "0" -> 0
      [] w = "01" -> 1
      [] w = "02" -> 2
      [] w = "05" -> 5
      [] w = "1" -> 1
      [] w = "10" -> 10
      [] w = "2" -> 2
      [] w = "20" -> 20
      [] w = "3" -> 3
      [] w = "4" -> 4
      [] w = "40" -> 40
      [] w = "5" -> 5
      [] w = "7" -> 7
      [] w = "9" -> 9

\* the words of a line
Words(line) == SelectSeq(line, LAMBDA x : ~IsWs(x))

\* the words of s from position i on: the groups of a pattern of words and
\* whitespace that matches at i
WordsFrom(s, i) == Words(SubSeq(s, i, Len(s)))

\* the digits of a word
Digits(w) ==
    CASE w \in {"(0", "0", "0,"} -> "0"
      [] w \in {"01"} -> "01"
      [] w \in {"02"} -> "02"
      [] w \in {"05"} -> "05"
      [] w \in {"(1", "1", "1,"} -> "1"
      [] w \in {"10"} -> "10"
      [] w \in {"(2", "2", "2,"} -> "2"
      [] w \in {"20"} -> "20"
      [] w \in {"(3", "3", "3,"} -> "3"
      [] w \in {"4"} -> "4"
      [] w \in {"40"} -> "40"
      [] w \in {"5"} -> "5"
      [] w \in {"7"} -> "7"
      [] w \in {"9"} -> "9"
      [] OTHER -> w

\* the decimal digits a word of the vocabulary ends with ("": none), what
\* (\d+) takes of the word where a pattern that starts with it is searched
DigitsAtEnd(w) ==
    CASE w \in {"(0", "0", "1/0", "1/4/4/0", "20.0", "ge-0", "inet.0", "lsi.0",
                "mpls.0"} -> "0"
      [] w \in {"01", "aa:01", "bb:01"} -> "01"
      [] w \in {"02", "AA:02", "aa:02"} -> "02"
      [] w \in {"05"} -> "05"
      [] w \in {"(1", "0.1", "1", "1/1", "10.0.0.1", "a1", "b1", "c1", "d1",
                "e1", "g1", "ge-1", "lsp1", "p1", "r1", "v1", "w1"} -> "1"
      [] w \in {"10"} -> "10"
      [] w \in {"(2", "10.0.0.2", "2", "a2", "b2", "c2", "d2", "e2", "g2",
                "lsp2", "r2", "v2", "w2"} -> "2"
      [] w \in {"20"} -> "20"
      [] w \in {"(3", "0.3", "3", "a3", "b3", "c3", "d3", "e3", "inet.3"} -> "3"
      [] w \in {"4", "a4", "b4", "c4", "d4", "e4"} -> "4"
      [] w \in {"05:55:40", "40"} -> "40"
      [] w \in {"5"} -> "5"
      [] w \in {"7"} -> "7"
      [] w \in {"10.0.0.9", "9"} -> "9"
      [] OTHER -> ""

\* a word that ends with a comma, without the comma
CommaWords ==
    <<"0,", "05:55:40,", "1,", "1d,", "2,", "3,", "Up,", "active,",
      "destinations,", "displayed,", "g1,", "g2,", "ge-0,", "holddown,",
      "lsi.0,", "pps,", "route,", "routes,", "session,", "sessions,", "up,">>

CommaWordStems ==
    <<"0", "05:55:40", "1", "1d", "2", "3", "Up", "active", "destinations",
      "displayed", "g1", "g2", "ge-0", "holddown", "lsi.0", "pps", "route",
      "routes", "session", "sessions", "up">>

BeforeComma(w) == CommaWordStems[CHOOSE i \in 1..Len(CommaWords) : CommaWords[i] = w]

\* sub in line, for a sub without blanks
InLine(sub, line) ==
    \E i \in 1..Len(line) : Contains(line[i], sub)

\* the position of the k-th word of a line
WordAt(line, k) ==
    CHOOSE i \in 1..Len(line) :
        ~IsWs(line[i]) /\ Len(Words(SubSeq(line, 1, i))) = k

\* the line from its k-th word on: the rest of the line that a pattern takes
\* with (.+)$ after k - 1 words, and the last part of str.split(None, k - 1)
FromWord(line, k) == SubSeq(line, WordAt(line, k), Len(line))

\* r'Total entries:\s*(\d+)'
TotalPattern == <<"Total", " ", "entries:", "\\s*", "\\d+">>

\* r'^([0-9a-f:]+)\s+(\d+\.\d+\.\d+\.\d+)\s+(\S+)\s+(\S+)'
ArpLinePattern ==
    <<"[0-9a-f:]+", "\\s+", "\\d+\\.\\d+\\.\\d+\\.\\d+", "\\s+", "\\S+",
      "\\s+", "\\S+">>

\* the loop over the lines: re.match(pattern, line.strip(), re.IGNORECASE)
\* and, on a match, an entry made of the four groups
RECURSIVE ArpEntries(_)
ArpEntries(lines) ==
    IF Len(lines) = 0 THEN <<>>
    ELSE LET line == Strip(Head(lines))
             w == Words(line)
         IN  (IF MatchRe(TRUE, ArpLinePattern, 1, line, 1) # NoMatch
              THEN <<[mac_address |-> w[1], ip_address |-> w[2],
                      interface |-> w[3], flags |-> w[4]]>>
              ELSE <<>>) \o ArpEntries(Tail(lines))

\* _parse_show_arp_no_resolve_regex with the loop started at the second line
_parse_show_arp_no_resolve_regex_from_second(cli_output) ==
    IF ~cli_output.some THEN Raise("TypeError")
    ELSE LET text == cli_output.text
             t == SearchRe(FALSE, TotalPattern, text, 1)
             total == IF t = 0 THEN 0
                      ELSE ToInt(DigitsAtStart(text[MatchFrom(FALSE, TotalPattern, text, t) - 1]))
             entries == ArpEntries(Tail(SplitLines(text)))
         IN  Return([total_entries |-> IF total = 0 THEN Len(entries) ELSE total,
                     entries |-> entries])

\* re.search on None raises TypeError; total_entries is the number of the
\* first 'Total entries:' and, when that is 0 or missing, len(entries)
_parse_show_arp_no_resolve_regex(cli_output) ==
    IF ~cli_output.some THEN Raise("TypeError")
    ELSE LET text == cli_output.text
             t == SearchRe(FALSE, TotalPattern, text, 1)
             total == IF t = 0 THEN 0
                      ELSE ToInt(DigitsAtStart(text[MatchFrom(FALSE, TotalPattern, text, t) - 1]))
             entries == ArpEntries(SplitLines(text))
         IN  Return([total_entries |-> IF total = 0 THEN Len(entries) ELSE total,
                     entries |-> entries])

\* a key a dict does not hold, and dict.get(key, default)
Missing == "<missing>"
DictGet(v, default) == IF v = Missing THEN default ELSE v

\* What GenieShowArpNoResolve.parse(output=cli_output) can return: Genie is
\* a library outside the repository.  genie_data is the dict it returns:
\* info says whether it holds 'arp-table-information', table whether that
\* holds 'arp-table-entry' (the list entries), count is 'arp-entry-count'.
GenieEntryData ==
    {[mac |-> "aa:01", ip |-> "10.0.0.1", name |-> "ge-0", flags |-> "none"],
     [mac |-> "bb:01", ip |-> "10.0.0.2", name |-> Missing, flags |-> Missing]}

GenieData ==
    {[info |-> FALSE, table |-> FALSE, entries |-> <<>>, count |-> Missing]}
    \cup {[info |-> TRUE, table |-> TRUE, entries |-> <<e>>, count |-> c] :
             e \in GenieEntryData, c \in {Missing, "2", "many"}}
    \cup {[info |-> TRUE, table |-> FALSE, entries |-> <<>>, count |-> "1"]}

\* With no output to parse Genie runs the command on the device, which is
\* not connected, and with nothing to parse in the output it raises
\* SchemaEmptyParserError; on other text it returns a dict or raises.
GenieOutcomes(cli_output) ==
    {Raise("Exception")}
    \cup (IF cli_output.some /\ Strip(cli_output.text) # <<>>
          THEN {Return(d) : d \in GenieData} ELSE {})

\* the entries of arp_info['arp-table-entry'], with the defaults of
\* entry_data.get
RECURSIVE GenieEntries(_)
GenieEntries(list) ==
    IF Len(list) = 0 THEN <<>>
    ELSE <<[mac_address |-> DictGet(Head(list).mac, "unknown"),
            ip_address |-> DictGet(Head(list).ip, "unknown"),
            interface |-> DictGet(Head(list).name, "unknown"),
            flags |-> DictGet(Head(list).flags, "none")]>>
            \o GenieEntries(Tail(list))

\* int(arp_info['arp-entry-count']) raises ValueError on a word that is not
\* a number
_convert_genie_show_arp_no_resolve(genie_data) ==
    LET entries == IF genie_data.info /\ genie_data.table
                   THEN GenieEntries(genie_data.entries) ELSE <<>>
    IN  IF ~genie_data.info THEN Return(ShowArpNoResolve)
        ELSE IF genie_data.count = Missing
        THEN Return([total_entries |-> Len(entries), entries |-> entries])
        ELSE IF ~IsNumber(genie_data.count) THEN Raise("ValueError")
        ELSE Return([total_entries |-> ToInt(genie_data.count),
                     entries |-> entries])

\* try: Genie and the conversion of its dict; except Exception: what the
\* conversion had built before it raised
parse_show_arp_no_resolve_partial(cli_output, genie) ==
    IF genie.raised THEN _parse_show_arp_no_resolve_regex(cli_output)
    ELSE IF _convert_genie_show_arp_no_resolve(genie.value).raised
    THEN Return([total_entries |-> 0, entries |-> GenieEntries(genie.value.entries)])
    ELSE _convert_genie_show_arp_no_resolve(genie.value)

\* try: Genie and the conversion of its dict; except Exception: the regex
\* parser.  genie is what parser.parse(output=cli_output) does in this call.
parse_show_arp_no_resolve(cli_output, genie) ==
    IF genie.raised THEN _parse_show_arp_no_resolve_regex(cli_output)
    ELSE IF _convert_genie_show_arp_no_resolve(genie.value).raised
    THEN _parse_show_arp_no_resolve_regex(cli_output)
    ELSE _convert_genie_show_arp_no_resolve(genie.value)

\* line.startswith('Interface')
StartsWithInterface(line) ==
    Len(line) > 0 /\ StartsWith(line[1], "Interface")

\* r'^(\S+)\s+(\S+)\s+(\d+)\s+(\S+)\s+(\S+)\s+(\S+)\s+(\S+)'
VrrpMainPattern ==
    <<"\\S+", "\\s+", "\\S+", "\\s+", "\\d+", "\\s+", "\\S+", "\\s+", "\\S+",
      "\\s+", "\\S+", "\\s+", "\\S+">>

\* r'^\s+(\S+)\s+(\S+)$'
VrrpContPattern == <<"\\s+", "\\S+", "\\s+", "\\S+", "$">>

\* The loop over the lines.  current_entry is <<>> for None or holds the
\* open entry; lines are matched after line.strip().
RECURSIVE VrrpLoop(_, _, _)
VrrpLoop(lines, entries, current_entry) ==
    IF Len(lines) = 0 THEN entries \o current_entry
    ELSE LET line == Strip(Head(lines))
             w == Words(line)
             q == MatchRe(FALSE, VrrpContPattern, 1, line, 1)
         IN  IF Len(line) = 0 \/ StartsWithInterface(line)
             THEN VrrpLoop(Tail(lines), entries, current_entry)
             ELSE IF MatchRe(FALSE, VrrpMainPattern, 1, line, 1) # NoMatch
             THEN VrrpLoop(Tail(lines), entries \o current_entry,
                    <<[interface |-> w[1], state |-> w[2], group |-> ToInt(w[3]),
                       vr_state |-> w[4], vr_mode |-> w[5],
                       addresses |-> <<[type |-> w[6], address |-> w[7]]>>]>>)
             ELSE IF q # NoMatch /\ Len(current_entry) > 0
             THEN VrrpLoop(Tail(lines), entries,
                    <<[current_entry[1] EXCEPT !.addresses =
                         Append(@, [type |-> w[1], address |-> w[2]])]>>)
             ELSE VrrpLoop(Tail(lines), entries, current_entry)

\* cli_output.split('\n') on None raises AttributeError
_parse_show_vrrp_summary_regex(cli_output) ==
    IF ~cli_output.some THEN Raise("AttributeError")
    ELSE Return([entries |-> VrrpLoop(SplitLines(cli_output.text), <<>>, <<>>)])

parse_show_vrrp_summary(cli_output) == _parse_show_vrrp_summary_regex(cli_output)

\* The loop over the lines of the LLDP parser; lines are matched after
\* line.strip().
\*   line.startswith('Local Interface')
\*   r'^(\S+)\s+(\S+)\s+([0-9a-f:]+)\s+(\S+)\s+(.+)$' with re.IGNORECASE
_parse_show_lldp_neighbors_regex(cli_output) ==
    LET RECURSIVE Loop(_, _)
        Loop(lines, lldp_neighbors) ==
            IF Len(lines) = 0 THEN lldp_neighbors
            ELSE LET line == Strip(Head(lines))
                     w == Words(line)
                     pattern == <<"\\S+", "\\s+", "\\S+", "\\s+", "[0-9a-f:]+", "\\s+",
                                  "\\S+", "\\s+", ".+", "$">>
                 IN  IF Len(line) = 0
                        \/ (Len(line) >= 3 /\ line[1] = "Local" /\ line[2] = SP
                            /\ StartsWith(line[3], "Interface"))
                     THEN Loop(Tail(lines), lldp_neighbors)
                     ELSE IF MatchRe(TRUE, pattern, 1, line, 1) # NoMatch
                     THEN Loop(Tail(lines),
                            [lldp_neighbors EXCEPT !.entries =
                                Append(@, [local_interface |-> w[1],
                                           parent_interface |-> w[2],
                                           chassis_id |-> w[3], port_info |-> w[4],
                                           system_name |-> FromWord(line, 5)])])
                     ELSE Loop(Tail(lines), lldp_neighbors)
    IN  IF ~cli_output.some THEN Raise("AttributeError")
        ELSE Return(Loop(SplitLines(cli_output.text), ShowLldpNeighbors))

parse_show_lldp_neighbors(cli_output) == _parse_show_lldp_neighbors_regex(cli_output)

\* The loop over the lines of the BFD parser.  The three patterns are tried
\* one after the other on every line that is not skipped.
\*   r'^(\d+\.\d+\.\d+\.\d+)\s+(\S+)\s+(\S+)\s+(\S+)\s+(\S+)\s+(\S+)'
\*   r'(\d+)\s+sessions?,\s+(\d+)\s+clients?'
\*   r'Cumulative transmit rate\s+(\S+\s+pps),\s+cumulative receive rate
\*     \s+(\S+\s+pps)'
\* The summary pattern is searched: its first group is the digits at the
\* end of a word.
_parse_show_bfd_session_regex(cli_output) ==
    LET RECURSIVE Loop(_, _)
        Loop(lines, bfd_session) ==
            IF Len(lines) = 0 THEN bfd_session
            ELSE LET line_stripped == Strip(Head(lines))
                     w == Words(line_stripped)
                     pattern == <<"\\d+\\.\\d+\\.\\d+\\.\\d+", "\\s+", "\\S+", "\\s+",
                                  "\\S+", "\\s+", "\\S+", "\\s+", "\\S+", "\\s+", "\\S+">>
                     entry == [address |-> w[1], state |-> w[2], interface |-> w[3],
                               detect_time |-> w[4], transmit_interval |-> w[5],
                               multiplier |-> w[6]]
                     with_entry ==
                        IF MatchRe(FALSE, pattern, 1, line_stripped, 1) # NoMatch
                        THEN [bfd_session EXCEPT !.entries = Append(@, entry)]
                        ELSE bfd_session
                     summary == <<"\\d+", "\\s+", "sessions?,", "\\s+", "\\d+", "\\s+",
                                  "clients?">>
                     hit == SearchRe(FALSE, summary, line_stripped, 1)
                     sw == WordsFrom(line_stripped, hit)
                     with_summary ==
                        IF hit # 0
                        THEN [with_entry EXCEPT
                                !.total_sessions = ToInt(DigitsAtEnd(sw[1])),
                                !.total_clients = ToInt(sw[3])]
                        ELSE with_entry
                     rate == <<"Cumulative", " ", "transmit", " ", "rate", "\\s+", "\\S+",
                               "\\s+", "pps,", "\\s+", "cumulative", " ", "receive", " ",
                               "rate", "\\s+", "\\S+", "\\s+", "pps">>
                     r == SearchRe(FALSE, rate, line_stripped, 1)
                     \* (\S+\s+pps) where the pattern has taken the line up to
                     \* position i
                     pps(i) ==
                        LET at == i + WsRun(line_stripped, i)
                        IN  [text |-> SubSeq(line_stripped, at,
                                             at + WsRun(line_stripped, at + 1))
                                        \o <<"pps">>,
                             end |-> at + WsRun(line_stripped, at + 1) + 2]
                     transmit == pps(r + 5)
                     receive ==
                        pps(transmit.end + WsRun(line_stripped, transmit.end) + 5)
                     with_rate ==
                        IF r # 0
                        THEN [with_summary EXCEPT
                                !.cumulative_transmit_rate = transmit.text,
                                !.cumulative_receive_rate = receive.text]
                        ELSE with_summary
                 IN  IF Len(line_stripped) = 0 \/ InLine("Address", line_stripped)
                        \/ InLine("Detect", line_stripped)
                     THEN Loop(Tail(lines), bfd_session)
                     ELSE Loop(Tail(lines), with_rate)
    IN  IF ~cli_output.some THEN Raise("AttributeError")
        ELSE Return(Loop(SplitLines(cli_output.text), ShowBfdSession))

parse_show_bfd_session(cli_output) == _parse_show_bfd_session_regex(cli_output)

\* _parse_show_rsvp_neighbor_regex with total_neighbors left as the header
\* line gave it
_parse_show_rsvp_neighbor_regex_as_read(cli_output) ==
    LET RECURSIVE Loop(_, _)
        Loop(lines, rsvp_neighbor) ==
            IF Len(lines) = 0
            THEN rsvp_neighbor
            ELSE LET line_stripped == Strip(Head(lines))
                     header == SearchRe(FALSE,
                                 <<"RSVP", " ", "neighbor:", "\\s+", "\\d+", "\\s+",
                                   "learned">>, line_stripped, 1)
                     pattern == <<"\\d+\\.\\d+\\.\\d+\\.\\d+", "\\s+", "\\d+", "\\s+",
                                  "\\d+/\\d+", "\\s+", ".+?", "\\s+", "\\d+", "\\s+",
                                  "\\d+/\\d+", "\\s+", "\\d+", "$">>
                     w == Words(line_stripped)
                     n == Len(w)
                     entry == [address |-> w[1], idle |-> w[2], up_dn |-> w[3],
                               last_change |->
                                  Strip(SubSeq(line_stripped,
                                               WordAt(line_stripped, 3) + 1,
                                               WordAt(line_stripped, n - 2) - 1)),
                               hello_interval |-> w[n - 2],
                               hello_tx_rx |-> w[n - 1], msg_rcvd |-> w[n]]
                 IN  IF header # 0
                     THEN Loop(Tail(lines),
                            [rsvp_neighbor EXCEPT !.total_neighbors =
                                ToInt(WordsFrom(line_stripped, header)[3])])
                     ELSE IF Len(line_stripped) = 0 \/ InLine("Address", line_stripped)
                                \/ InLine("Idle", line_stripped)
                     THEN Loop(Tail(lines), rsvp_neighbor)
                     ELSE IF MatchRe(FALSE, pattern, 1, line_stripped, 1) # NoMatch
                     THEN Loop(Tail(lines),
                            [rsvp_neighbor EXCEPT !.entries = Append(@, entry)])
                     ELSE Loop(Tail(lines), rsvp_neighbor)
    IN  IF ~cli_output.some THEN Raise("AttributeError")
        ELSE Return(Loop(SplitLines(cli_output.text), ShowRsvpNeighbor))

\* The loop over the lines of the RSVP neighbor parser, and the count of the
\* entries in place of a total of 0.
\*   r'RSVP neighbor:\s+(\d+)\s+learned'
\*   r'^(\d+\.\d+\.\d+\.\d+)\s+(\d+)\s+(\d+/\d+)\s+(.+?)\s+(\d+)\s+(\d+/\d+)
\*     \s+(\d+)$'
\* Group 4 is what lies between the third word and the last three, after
\* strip(): nothing when the line has six words, which match when three
\* blanks or more stand between the third and the fourth.
_parse_show_rsvp_neighbor_regex(cli_output) ==
    LET RECURSIVE Loop(_, _)
        Loop(lines, rsvp_neighbor) ==
            IF Len(lines) = 0
            THEN (IF rsvp_neighbor.total_neighbors = 0
                  THEN [rsvp_neighbor EXCEPT !.total_neighbors = Len(rsvp_neighbor.entries)]
                  ELSE rsvp_neighbor)
            ELSE LET line_stripped == Strip(Head(lines))
                     header == SearchRe(FALSE,
                                 <<"RSVP", " ", "neighbor:", "\\s+", "\\d+", "\\s+",
                                   "learned">>, line_stripped, 1)
                     pattern == <<"\\d+\\.\\d+\\.\\d+\\.\\d+", "\\s+", "\\d+", "\\s+",
                                  "\\d+/\\d+", "\\s+", ".+?", "\\s+", "\\d+", "\\s+",
                                  "\\d+/\\d+", "\\s+", "\\d+", "$">>
                     w == Words(line_stripped)
                     n == Len(w)
                     entry == [address |-> w[1], idle |-> w[2], up_dn |-> w[3],
                               last_change |->
                                  Strip(SubSeq(line_stripped,
                                               WordAt(line_stripped, 3) + 1,
                                               WordAt(line_stripped, n - 2) - 1)),
                               hello_interval |-> w[n - 2],
                               hello_tx_rx |-> w[n - 1], msg_rcvd |-> w[n]]
                 IN  IF header # 0
                     THEN Loop(Tail(lines),
                            [rsvp_neighbor EXCEPT !.total_neighbors =
                                ToInt(WordsFrom(line_stripped, header)[3])])
                     ELSE IF Len(line_stripped) = 0 \/ InLine("Address", line_stripped)
                                \/ InLine("Idle", line_stripped)
                     THEN Loop(Tail(lines), rsvp_neighbor)
                     ELSE IF MatchRe(FALSE, pattern, 1, line_stripped, 1) # NoMatch
                     THEN Loop(Tail(lines),
                            [rsvp_neighbor EXCEPT !.entries = Append(@, entry)])
                     ELSE Loop(Tail(lines), rsvp_neighbor)
    IN  IF ~cli_output.some THEN Raise("AttributeError")
        ELSE Return(Loop(SplitLines(cli_output.text), ShowRsvpNeighbor))

parse_show_rsvp_neighbor(cli_output) == _parse_show_rsvp_neighbor_regex(cli_output)

\* r'Total\s+(\d+)\s+displayed,\s+Up\s+(\d+),\s+Down\s+(\d+)'
SummaryPattern ==
    <<"Total", "\\s+", "\\d+", "\\s+", "displayed,", "\\s+", "Up", "\\s+", "\\d+,",
      "\\s+", "Down", "\\s+", "\\d+">>

\* SummaryTotals with the Up and Down counts taken for each other
SummaryTotals_swapped(w) ==
    [total_displayed |-> ToInt(w[2]), total_up |-> ToInt(DigitsAtStart(w[7])),
     total_down |-> ToInt(Digits(w[5]))]

\* int() of the three groups of the summary pattern; w holds the words of
\* the line from the match on
SummaryTotals(w) ==
    [total_displayed |-> ToInt(w[2]), total_up |-> ToInt(Digits(w[5])),
     total_down |-> ToInt(DigitsAtStart(w[7]))]

\* current_section.total_displayed = ..., .total_up = ..., .total_down = ...
WithTotals(section, totals) ==
    [section EXCEPT !.total_displayed = totals.total_displayed,
                    !.total_up = totals.total_up,
                    !.total_down = totals.total_down]

\* The loop over the lines of the RSVP session parser.  current is the
\* section_type of current_section ("" for None): current_section is the
\* object that rsvp_session holds under that name.
\*   r'Ingress RSVP:\s+(\d+)\s+sessions?'   (and Egress, Transit)
\*   r'Total\s+(\d+)\s+displayed,\s+Up\s+(\d+),\s+Down\s+(\d+)'
\*   r'^(\S+)\s+(\S+)\s+(\S+)\s+(\S+)\s+(\S+)\s+(\S+)\s+(\S+)\s+(\S+.*)$'
\* The entry pattern has eight groups, so len(match.groups()) >= 9 fails
\* and lspname is ""; labelout is group 8, the rest of the line.
\* one pass of 'for line in lines:' on the locals of the call
RsvpSessionForLine(locals, line) ==
    LET rsvp_session == locals.rsvp_session
        current == locals.current
        next(a, b) == [rsvp_session |-> a, current |-> b]
    IN  LET line_stripped == Strip(line)
             header(kind) ==
                <<kind, " ", "RSVP:", "\\s+", "\\d+", "\\s+", "sessions?">>
             found(kind) == SearchRe(FALSE, header(kind), line_stripped, 1)
             section(kind) ==
                [section_type |-> kind,
                 total_sessions |->
                    ToInt(WordsFrom(line_stripped, found(kind))[3]),
                 entries |-> <<>>, total_displayed |-> 0, total_up |-> 0,
                 total_down |-> 0]
             s == SearchRe(FALSE, SummaryPattern, line_stripped, 1)
             pattern == <<"\\S+", "\\s+", "\\S+", "\\s+", "\\S+", "\\s+", "\\S+",
                          "\\s+", "\\S+", "\\s+", "\\S+", "\\s+", "\\S+", "\\s+",
                          "\\S+">>
             w == Words(line_stripped)
             rest == SubSeq(line_stripped,
                            MatchRe(FALSE, pattern, 1, line_stripped, 1) - 1,
                            Len(line_stripped))
             field == CASE current = "Ingress" -> "ingress"
                        [] current = "Egress" -> "egress"
                        [] current = "Transit" -> "transit"
             open(kind, name) ==
                next([rsvp_session EXCEPT ![name] = Some(section(kind))],
                                kind)
         IN  IF Len(line_stripped) = 0
             THEN next(rsvp_session, current)
             ELSE IF found("Ingress") # 0 THEN open("Ingress", "ingress")
             ELSE IF found("Egress") # 0 THEN open("Egress", "egress")
             ELSE IF found("Transit") # 0 THEN open("Transit", "transit")
             ELSE IF InLine("To", line_stripped) /\ InLine("From", line_stripped)
                        /\ InLine("State", line_stripped)
             THEN next(rsvp_session, current)
             ELSE IF s # 0 /\ current # ""
             THEN next([rsvp_session EXCEPT ![field].text =
                        WithTotals(@, SummaryTotals(WordsFrom(line_stripped, s)))],
                    current)
             ELSE IF MatchRe(FALSE, pattern, 1, line_stripped, 1) # NoMatch
                        /\ current # ""
             THEN next([rsvp_session EXCEPT ![field].text.entries =
                        Append(@, [to |-> w[1], from_addr |-> w[2], state |-> w[3],
                                   rt |-> w[4], style |-> <<w[5], " ", w[6]>>,
                                   labelin |-> w[7], labelout |-> rest,
                                   lspname |-> ""])],
                    current)
             ELSE next(rsvp_session, current)

_parse_show_rsvp_session_regex(cli_output) ==
    LET RECURSIVE Loop(_, _)
        Loop(lines, locals) ==
            IF Len(lines) = 0 THEN locals.rsvp_session
            ELSE Loop(Tail(lines), RsvpSessionForLine(locals, Head(lines)))
    IN  IF ~cli_output.some THEN Raise("AttributeError")
        ELSE Return(Loop(SplitLines(cli_output.text),
                         [rsvp_session |-> ShowRsvpSession, current |-> ""]))

parse_show_rsvp_session(cli_output) == _parse_show_rsvp_session_regex(cli_output)

\* r'inet\.0:\s+(\d+)\s+destinations,\s+(\d+)\s+routes\s+\((\d+)\s+active,
\*   \s+(\d+)\s+holddown,\s+(\d+)\s+hidden\)'   (and inet.3:, mpls.0:)
RouteHeaderPattern(table) ==
    <<table, "\\s+", "\\d+", "\\s+", "destinations,", "\\s+", "\\d+", "\\s+",
      "routes", "\\s+", "\\(\\d+", "\\s+", "active,", "\\s+", "\\d+", "\\s+",
      "holddown,", "\\s+", "\\d+", "\\s+", "hidden)">>

\* int() of the five groups of the header; w holds the words of the line
\* from the match on
WithRouteTotals(route_table, w) ==
    [route_table EXCEPT !.total_destinations = ToInt(w[2]),
                        !.total_routes = ToInt(w[4]),
                        !.active_routes = ToInt(Digits(w[6])),
                        !.holddown_routes = ToInt(w[8]),
                        !.hidden_routes = ToInt(w[10])]

\* not line_stripped or line_stripped.startswith('+') or
\* line_stripped.startswith('-')
IsLegendLine(line_stripped) ==
    \/ Len(line_stripped) = 0
    \/ StartsWith(line_stripped[1], "+") \/ StartsWith(line_stripped[1], "-")

\* r'^(\S+)\s+\*\[([^\]]+)\]\s+([^,]+),\s+metric\s+(\S+)'
RouteMainPattern ==
    <<"\\S+", "\\s+", "\\*\\[[^\\]]+\\]", "\\s+", "[^,]+,", "\\s+", "metric",
      "\\s+", "\\S+">>

\* main_match.group(2).split('/')
ProtocolParts(w) ==
    CASE w = "*[Direct]" -> <<"Direct">>
      [] w = "*[RSVP/7/1]" -> <<"RSVP", "7", "1">>
      [] w = "*[Static/5]" -> <<"Static", "5">>
      [] w = "*[direct]" -> <<"direct">>
      [] w = "*[rsvp/7/1]" -> <<"rsvp", "7", "1">>
      [] w = "*[static/5]" -> <<"static", "5">>

\* main_match.group(3).strip(): the line from its third word to the comma
RouteAge(line_stripped) ==
    LET from == MatchRe(FALSE, SubSeq(RouteMainPattern, 1, 4), 1, line_stripped, 1)
        to == MatchRe(FALSE, SubSeq(RouteMainPattern, 1, 5), 1, line_stripped, 1) - 1
    IN  SubSeq(line_stripped, from, to - 1) \o <<BeforeComma(line_stripped[to])>>

\* r'to\s+(\S+)\s+via\s+(\S+)', the part that the next-hop patterns share.
\* Their optional groups (?:,\s+(.+))? never take part in a match: (\S+)
\* takes the comma with the word and the match ends there.
ToViaPattern == <<"to", "\\s+", "\\S+", "\\s+", "via", "\\s+", "\\S+">>

\* r'>\s+to\s+(\S+)\s+via\s+(\S+)(?:,\s+(.+))?' and r'(\S+)\s+via\s+(\S+)'
_parse_show_route_table_inet0_regex(cli_output) ==
    LET RECURSIVE Loop(_, _, _)
        Loop(lines, route_table, current_entry) ==
            IF Len(lines) = 0
            THEN [route_table EXCEPT !.entries = @ \o current_entry]
            ELSE LET line_stripped == Strip(Head(lines))
                     h == SearchRe(FALSE, RouteHeaderPattern("inet.0:"), line_stripped, 1)
                     w == Words(line_stripped)
                     parts == ProtocolParts(w[2])
                     n == SearchRe(FALSE, <<">", "\\s+">> \o ToViaPattern, line_stripped, 1)
                     l == SearchRe(FALSE, <<"\\S+", "\\s+", "via", "\\s+", "\\S+">>,
                                   line_stripped, 1)
                     hop(to, via) ==
                        Loop(Tail(lines), route_table,
                             <<[current_entry[1] EXCEPT !.next_hop = to, !.via = via]>>)
                 IN  IF h # 0
                     THEN Loop(Tail(lines),
                               WithRouteTotals(route_table, WordsFrom(line_stripped, h)),
                               current_entry)
                     ELSE IF IsLegendLine(line_stripped)
                     THEN Loop(Tail(lines), route_table, current_entry)
                     ELSE IF MatchRe(FALSE, RouteMainPattern, 1, line_stripped, 1) # NoMatch
                     THEN Loop(Tail(lines),
                               [route_table EXCEPT !.entries = @ \o current_entry],
                               <<[destination |-> w[1], protocol |-> parts[1],
                                  preference |-> IF Len(parts) > 1 THEN parts[2] ELSE "",
                                  age |-> RouteAge(line_stripped),
                                  metric |-> w[Len(Words(RouteAge(line_stripped))) + 4],
                                  next_hop |-> "", via |-> "", mpls_label |-> ""]>>)
                     ELSE IF Len(current_entry) = 0
                     THEN Loop(Tail(lines), route_table, current_entry)
                     ELSE IF n # 0
                     THEN hop(WordsFrom(line_stripped, n)[3], WordsFrom(line_stripped, n)[5])
                     ELSE IF (InLine("Direct", Head(lines)) \/ InLine("Local", Head(lines)))
                             /\ l # 0
                     THEN hop(WordsFrom(line_stripped, l)[1], WordsFrom(line_stripped, l)[3])
                     ELSE Loop(Tail(lines), route_table, current_entry)
    IN  IF ~cli_output.some THEN Raise("AttributeError")
        ELSE Return(Loop(SplitLines(cli_output.text), ShowRouteTableInet0, <<>>))

parse_show_route_table_inet0(cli_output) == _parse_show_route_table_inet0_regex(cli_output)

\* RouteEntry with a next-hop in next_hops from the start
RouteEntry_one_hop(line_stripped, preference) ==
    LET w == Words(line_stripped)
    IN  [protocol |-> ProtocolParts(w[2])[1], preference |-> preference,
         age |-> RouteAge(line_stripped),
         metric |-> w[Len(Words(RouteAge(line_stripped))) + 4],
         next_hops |-> <<[to |-> "", via |-> "", mpls_label |-> ""]>>]

\* the entry of a main line: protocol_pref[0], and what the parser makes of
\* the rest of protocol_pref; key is 'destination' or 'label'
RouteEntry(line_stripped, preference) ==
    LET w == Words(line_stripped)
    IN  [protocol |-> ProtocolParts(w[2])[1], preference |-> preference,
         age |-> RouteAge(line_stripped),
         metric |-> w[Len(Words(RouteAge(line_stripped))) + 4],
         next_hops |-> <<>>]

AppendNextHop_opening(current_entry, nh) ==
    IF Len(current_entry) = 0
    THEN <<[destination |-> "", protocol |-> "", preference |-> "", age |-> "",
            metric |-> "", next_hops |-> <<nh>>]>>
    ELSE <<[current_entry[1] EXCEPT !.next_hops = Append(@, nh)]>>

\* elif current_entry: ... current_entry.next_hops.append(nh); with no
\* entry open the line is passed over
AppendNextHop(current_entry, nh) ==
    IF Len(current_entry) = 0 THEN current_entry
    ELSE <<[current_entry[1] EXCEPT !.next_hops = Append(@, nh)]>>

\* r'(?:>\s+)?to\s+(\S+)\s+via\s+(\S+)(?:,\s+(.+))?' and 'Discard' in
\* line_stripped
_parse_show_route_table_inet3_regex(cli_output) ==
    LET RECURSIVE Loop(_, _, _)
        Loop(lines, route_table, current_entry) ==
            IF Len(lines) = 0
            THEN [route_table EXCEPT !.entries = @ \o current_entry]
            ELSE LET line_stripped == Strip(Head(lines))
                     h == SearchRe(FALSE, RouteHeaderPattern("inet.3:"), line_stripped, 1)
                     w == Words(line_stripped)
                     parts == ProtocolParts(w[2])
                     n == SearchRe(FALSE, ToViaPattern, line_stripped, 1)
                     hop(nh) ==
                        Loop(Tail(lines), route_table, AppendNextHop(current_entry, nh))
                 IN  IF h # 0
                     THEN Loop(Tail(lines),
                               WithRouteTotals(route_table, WordsFrom(line_stripped, h)),
                               current_entry)
                     ELSE IF IsLegendLine(line_stripped)
                     THEN Loop(Tail(lines), route_table, current_entry)
                     ELSE IF MatchRe(FALSE, RouteMainPattern, 1, line_stripped, 1) # NoMatch
                     THEN Loop(Tail(lines),
                               [route_table EXCEPT !.entries = @ \o current_entry],
                               <<[destination |-> w[1]]
                                 @@ RouteEntry(line_stripped,
                                       IF Len(parts) > 1 THEN parts[2] ELSE "")>>)
                     ELSE IF n # 0
                     THEN hop([to |-> WordsFrom(line_stripped, n)[2],
                               via |-> WordsFrom(line_stripped, n)[4],
                               mpls_label |-> ""])
                     ELSE IF InLine("Discard", line_stripped)
                     THEN hop([to |-> "", via |-> "Discard", mpls_label |-> ""])
                     ELSE Loop(Tail(lines), route_table, current_entry)
    IN  IF ~cli_output.some THEN Raise("AttributeError")
        ELSE Return(Loop(SplitLines(cli_output.text), ShowRouteTableInet3, <<>>))

parse_show_route_table_inet3(cli_output) == _parse_show_route_table_inet3_regex(cli_output)

\* '/'.join(protocol_parts[1:]), as the characters of the str
JoinSlash(parts) ==
    [i \in 1..(2 * Len(parts) - 1) |->
        IF i % 2 = 1 THEN parts[(i + 1) \div 2] ELSE "/"]

\* 'a b' in line: a word that ends with a, one blank and a word that starts
\* with b
InLineTwo(a, b, line) ==
    \E i \in 1..(Len(line) - 2) :
        EndsWith(line[i], a) /\ line[i + 1] = SP /\ StartsWith(line[i + 2], b)

\* The next-hop branches of the mpls.0 parser, in the order of the code:
\*   'to table' in line_stripped, r'to table\s+(\S+)'
\*   r'^\s*(Receive|Discard)\s*$'
\*   'via lsi' / 'via vt-' / 'via ms-' in line_stripped,
\*       r'via\s+(\S+)(?:\s+\(([^)]+)\))?,\s+(\S+)'   (no word of the
\*       vocabulary is a name in parentheses)
\*   'to' in line_stripped and 'via' in line_stripped,
\*       r'(?:>\s+)?to\s+(\S+)\s+via\s+(\S+)(?:,\s+label-switched-path\s+(.+))?
\*         (?:,\s+(Swap|Pop|Push)\s+(.+))?'; simple_pattern matches only
\*       where this one does
_parse_show_route_table_mpls0_regex(cli_output) ==
    LET RECURSIVE Loop(_, _, _)
        Loop(lines, route_table, current_entry) ==
            IF Len(lines) = 0
            THEN [route_table EXCEPT !.entries = @ \o current_entry]
            ELSE LET line_stripped == Strip(Head(lines))
                     h == SearchRe(FALSE, RouteHeaderPattern("mpls.0:"), line_stripped, 1)
                     w == Words(line_stripped)
                     parts == ProtocolParts(w[2])
                     t == SearchRe(FALSE, <<"to", " ", "table", "\\s+", "\\S+">>,
                                   line_stripped, 1)
                     v == SearchRe(FALSE, <<"via", "\\s+", "\\S+,", "\\s+", "\\S+">>,
                                   line_stripped, 1)
                     n == SearchRe(FALSE, ToViaPattern, line_stripped, 1)
                     nh == [to |-> "", via |-> "", mpls_label |-> "", lsp_name |-> "",
                            action |-> ""]
                     skip == Loop(Tail(lines), route_table, current_entry)
                     hop(next) ==
                        Loop(Tail(lines), route_table,
                             <<[current_entry[1] EXCEPT !.next_hops = Append(@, next)]>>)
                 IN  IF h # 0
                     THEN Loop(Tail(lines),
                               WithRouteTotals(route_table, WordsFrom(line_stripped, h)),
                               current_entry)
                     ELSE IF IsLegendLine(line_stripped) THEN skip
                     ELSE IF MatchRe(FALSE, RouteMainPattern, 1, line_stripped, 1) # NoMatch
                     THEN Loop(Tail(lines),
                               [route_table EXCEPT !.entries = @ \o current_entry],
                               <<[label |-> w[1]]
                                 @@ RouteEntry(line_stripped,
                                       IF Len(parts) > 1 THEN JoinSlash(Tail(parts))
                                       ELSE "")>>)
                     ELSE IF Len(current_entry) = 0 THEN skip
                     ELSE IF InLineTwo("to", "table", line_stripped)
                     THEN (IF t # 0
                           THEN hop([nh EXCEPT !.to = "table",
                                               !.via = WordsFrom(line_stripped, t)[3]])
                           ELSE skip)
                     ELSE IF line_stripped \in {<<"Receive">>, <<"Discard">>}
                     THEN hop([nh EXCEPT !.action = line_stripped])
                     ELSE IF \E b \in {"lsi", "vt-", "ms-"} : InLineTwo("via", b, line_stripped)
                     THEN (IF v # 0
                           THEN hop([nh EXCEPT
                                       !.via = BeforeComma(WordsFrom(line_stripped, v)[2]),
                                       !.action = WordsFrom(line_stripped, v)[3]])
                           ELSE skip)
                     ELSE IF InLine("to", line_stripped) /\ InLine("via", line_stripped)
                     THEN (IF n # 0
                           THEN hop([nh EXCEPT !.to = WordsFrom(line_stripped, n)[2],
                                               !.via = WordsFrom(line_stripped, n)[4]])
                           ELSE skip)
                     ELSE skip
    IN  IF ~cli_output.some THEN Raise("AttributeError")
        ELSE Return(Loop(SplitLines(cli_output.text), ShowRouteTableMpls0, <<>>))

parse_show_route_table_mpls0(cli_output) == _parse_show_route_table_mpls0_regex(cli_output)

\* The loop over the lines of the MPLS interface parser.
\*   'Interface' in line_stripped
\*   r'^(\S+)\s+(\S+)\s+(.+)$'
_parse_show_mpls_interface_regex(cli_output) ==
    LET RECURSIVE Loop(_, _)
        Loop(lines, mpls_interface) ==
            IF Len(lines) = 0 THEN mpls_interface
            ELSE LET line_stripped == Strip(Head(lines))
                     w == Words(line_stripped)
                     pattern == <<"\\S+", "\\s+", "\\S+", "\\s+", ".+", "$">>
                 IN  IF Len(line_stripped) = 0 \/ InLine("Interface", line_stripped)
                     THEN Loop(Tail(lines), mpls_interface)
                     ELSE IF MatchRe(FALSE, pattern, 1, line_stripped, 1) # NoMatch
                     THEN Loop(Tail(lines),
                            [mpls_interface EXCEPT !.entries =
                                Append(@, [interface |-> w[1], state |-> w[2],
                                           administrative_groups |->
                                              FromWord(line_stripped, 3)])])
                     ELSE Loop(Tail(lines), mpls_interface)
    IN  IF ~cli_output.some THEN Raise("AttributeError")
        ELSE Return(Loop(SplitLines(cli_output.text), ShowMplsInterface))

parse_show_mpls_interface(cli_output) == _parse_show_mpls_interface_regex(cli_output)

\* The loop over the lines of the MPLS LSP parser.  current is the
\* section_type of current_section ("" for None), the object mpls_lsp holds
\* under that name.
\*   r'Ingress LSP:\s+(\d+)\s+sessions?'   (and Egress, Transit)
\*   r'Total\s+(\d+)\s+displayed,\s+Up\s+(\d+),\s+Down\s+(\d+)'
\*   r'^(\S+)\s+(\S+)\s+(\S+)\s+(\S+)\s+(\S+)\s+(\S*)\s+(.+)$'           Ingress
\*   r'^(\S+)\s+(\S+)\s+(\S+)\s+(\S+)\s+(\S+)\s+(\S+)\s+(\S+)\s+(\S+)\s+(.+)$'
_parse_show_mpls_lsp_regex(cli_output) ==
    LET RECURSIVE Loop(_, _, _)
        Loop(lines, mpls_lsp, current) ==
            IF Len(lines) = 0 THEN mpls_lsp
            ELSE LET line_stripped == Strip(Head(lines))
                     header(kind) ==
                        <<kind, " ", "LSP:", "\\s+", "\\d+", "\\s+", "sessions?">>
                     found(kind) == SearchRe(FALSE, header(kind), line_stripped, 1)
                     section(kind) ==
                        [section_type |-> kind,
                         total_sessions |->
                            ToInt(WordsFrom(line_stripped, found(kind))[3]),
                         entries |-> <<>>, total_displayed |-> 0, total_up |-> 0,
                         total_down |-> 0]
                     open(kind, name) ==
                        Loop(Tail(lines),
                             [mpls_lsp EXCEPT ![name] = Some(section(kind))], kind)
                     field == CASE current = "Ingress" -> "ingress"
                                [] current = "Egress" -> "egress"
                                [] current = "Transit" -> "transit"
                     s == SearchRe(FALSE, SummaryPattern, line_stripped, 1)
                     w == Words(line_stripped)
                     five == <<"\\S+", "\\s+", "\\S+", "\\s+", "\\S+", "\\s+", "\\S+",
                               "\\s+", "\\S+", "\\s+">>
                     ingress == five \o <<"\\S*", "\\s+", ".+">>
                     other == five \o <<"\\S+", "\\s+", "\\S+", "\\s+", "\\S+",
                                        "\\s+", ".+">>
                     \* the position where the last group starts
                     last(pat) ==
                        MatchRe(FALSE, SubSeq(pat, 1, Len(pat) - 1), 1,
                                line_stripped, 1)
                     rest(pat) ==
                        SubSeq(line_stripped, last(pat), Len(line_stripped))
                     blank == [to |-> w[1], from_addr |-> w[2], state |-> w[3],
                               rt |-> w[4], p |-> "", active_path |-> "",
                               style |-> "", labelin |-> "", labelout |-> "",
                               lspname |-> ""]
                     with(entry) ==
                        Loop(Tail(lines),
                             [mpls_lsp EXCEPT ![field].text.entries = Append(@, entry)],
                             current)
                 IN  IF Len(line_stripped) = 0
                     THEN Loop(Tail(lines), mpls_lsp, current)
                     ELSE IF found("Ingress") # 0 THEN open("Ingress", "ingress")
                     ELSE IF found("Egress") # 0 THEN open("Egress", "egress")
                     ELSE IF found("Transit") # 0 THEN open("Transit", "transit")
                     ELSE IF InLine("To", line_stripped) /\ InLine("From", line_stripped)
                     THEN Loop(Tail(lines), mpls_lsp, current)
                     ELSE IF s # 0 /\ current # ""
                     THEN Loop(Tail(lines),
                            [mpls_lsp EXCEPT ![field].text =
                                WithTotals(@, SummaryTotals(WordsFrom(line_stripped, s)))],
                            current)
                     ELSE IF current = ""
                     THEN Loop(Tail(lines), mpls_lsp, current)
                     ELSE IF current = "Ingress"
                     THEN (IF MatchRe(FALSE, ingress, 1, line_stripped, 1) # NoMatch
                           THEN with([blank EXCEPT
                                        !.p = w[5],
                                        !.active_path =
                                            IF Len(Words(rest(ingress))) = Len(w) - 5
                                            THEN "" ELSE w[6],
                                        !.lspname = Strip(rest(ingress))])
                           ELSE Loop(Tail(lines), mpls_lsp, current))
                     ELSE (IF MatchRe(FALSE, other, 1, line_stripped, 1) # NoMatch
                           THEN with([blank EXCEPT
                                        !.style = <<w[5], " ", w[6]>>,
                                        !.labelin = w[7], !.labelout = w[8],
                                        !.lspname = Strip(rest(other))])
                           ELSE Loop(Tail(lines), mpls_lsp, current))
    IN  IF ~cli_output.some THEN Raise("AttributeError")
        ELSE Return(Loop(SplitLines(cli_output.text), ShowMplsLsp, ""))

parse_show_mpls_lsp(cli_output) == _parse_show_mpls_lsp_regex(cli_output)

\* The loop over the lines of the P2MP parser.  current is the section_type
\* of current_section ("" for None), the object mpls_lsp_p2mp holds under
\* that name; current_group is <<>> for None or holds the open group.
\*   r'Ingress LSP:\s+(\d+)\s+sessions?'   (and Egress, Transit)
\*   r'P2MP name:\s+(.+?),\s+P2MP branch count:\s+(\d+)'
\*   r'^(\S+)\s+(\S+)\s+(\S+)\s+(\S+)\s+(\S+)\s+(\S*)\s+(.+)$'           Ingress
\*   r'^(\S+)\s+(\S+)\s+(\S+)\s+(\S+)\s+(\S+)\s+(\S+)\s+(\S+)\s+(\S+)\s+(.+)$'
\* A P2MP name is one word of the vocabulary.  A section header sets
\* current_group = None without appending the open group.
\* P2mpFlushed with the open group appended twice
P2mpFlushed_twice(locals) ==
    LET name == CASE locals.current = "Ingress" -> "ingress"
                  [] locals.current = "Egress" -> "egress"
                  [] locals.current = "Transit" -> "transit"
    IN  IF Len(locals.current_group) = 0 THEN locals.mpls_lsp_p2mp
        ELSE [locals.mpls_lsp_p2mp EXCEPT ![name].text.groups =
                    @ \o locals.current_group \o locals.current_group]

\* mpls_lsp_p2mp with the open group appended to the groups of
\* current_section: current_section.groups.append(current_group)
P2mpFlushed(locals) ==
    LET name == CASE locals.current = "Ingress" -> "ingress"
                  [] locals.current = "Egress" -> "egress"
                  [] locals.current = "Transit" -> "transit"
    IN  IF Len(locals.current_group) = 0 THEN locals.mpls_lsp_p2mp
        ELSE [locals.mpls_lsp_p2mp EXCEPT ![name].text.groups =
                    @ \o locals.current_group]

\* one pass of 'for line in lines:' on the locals of the call
P2mpForLine(locals, line) ==
    LET mpls_lsp_p2mp == locals.mpls_lsp_p2mp
        current == locals.current
        current_group == locals.current_group
        flushed == P2mpFlushed(locals)
        field == CASE current = "Ingress" -> "ingress"
                   [] current = "Egress" -> "egress"
                   [] current = "Transit" -> "transit"
        next(a, b, c) == [mpls_lsp_p2mp |-> a, current |-> b, current_group |-> c]
    IN  LET line_stripped == Strip(line)
             header(kind) ==
                <<kind, " ", "LSP:", "\\s+", "\\d+", "\\s+", "sessions?">>
             found(kind) == SearchRe(FALSE, header(kind), line_stripped, 1)
             section(kind) ==
                [section_type |-> kind,
                 total_sessions |->
                    ToInt(WordsFrom(line_stripped, found(kind))[3]),
                 groups |-> <<>>, total_displayed |-> 0, total_up |-> 0,
                 total_down |-> 0]
             open(kind, name) ==
                next([mpls_lsp_p2mp EXCEPT ![name] = Some(section(kind))],
                     kind, <<>>)
             p2mp == SearchRe(FALSE,
                        <<"P2MP", " ", "name:", "\\s+", ".+?,", "\\s+", "P2MP",
                          " ", "branch", " ", "count:", "\\s+", "\\d+">>,
                        line_stripped, 1)
             \* the match, from 'P2MP' to the word that group 2 is taken from:
             \* group 1 runs from the third word to the comma of the fifth
             \* word from the end
             matched ==
                SubSeq(line_stripped, p2mp,
                       MatchFrom(FALSE,
                            <<"P2MP", " ", "name:", "\\s+", ".+?,", "\\s+", "P2MP",
                              " ", "branch", " ", "count:", "\\s+", "\\d+">>,
                            line_stripped, p2mp) - 1)
             pw == Words(matched)
             comma == WordAt(matched, Len(pw) - 4)
             s == SearchRe(FALSE, SummaryPattern, line_stripped, 1)
             w == Words(line_stripped)
             five == <<"\\S+", "\\s+", "\\S+", "\\s+", "\\S+", "\\s+", "\\S+",
                       "\\s+", "\\S+", "\\s+">>
             ingress == five \o <<"\\S*", "\\s+", ".+">>
             other == five \o <<"\\S+", "\\s+", "\\S+", "\\s+", "\\S+",
                                "\\s+", ".+">>
             \* the position where the last group starts
             last(pat) ==
                MatchRe(FALSE, SubSeq(pat, 1, Len(pat) - 1), 1,
                        line_stripped, 1)
             rest(pat) ==
                SubSeq(line_stripped, last(pat), Len(line_stripped))
             blank == [to |-> w[1], from_addr |-> w[2], state |-> w[3],
                       rt |-> w[4], p |-> "", active_path |-> "",
                       style |-> "", labelin |-> "", labelout |-> "",
                       lspname |-> ""]
             with(entry) ==
                next(mpls_lsp_p2mp, current,
                     <<[current_group[1] EXCEPT !.entries = Append(@, entry)]>>)
         IN  IF Len(line_stripped) = 0
             THEN next(mpls_lsp_p2mp, current, current_group)
             ELSE IF found("Ingress") # 0 THEN open("Ingress", "ingress")
             ELSE IF found("Egress") # 0 THEN open("Egress", "egress")
             ELSE IF found("Transit") # 0 THEN open("Transit", "transit")
             ELSE IF p2mp # 0 /\ current # ""
             THEN next(flushed, current,
                       <<[p2mp_name |->
                             SubSeq(matched, WordAt(matched, 3), comma - 1)
                             \o <<BeforeComma(matched[comma])>>,
                          branch_count |-> ToInt(DigitsAtStart(pw[Len(pw)])),
                          entries |-> <<>>]>>)
             ELSE IF InLine("To", line_stripped) /\ InLine("From", line_stripped)
             THEN next(mpls_lsp_p2mp, current, current_group)
             ELSE IF s # 0 /\ current # ""
             THEN next([flushed EXCEPT ![field].text =
                        WithTotals(@, SummaryTotals(WordsFrom(line_stripped, s)))],
                    current, <<>>)
             ELSE IF Len(current_group) = 0
             THEN next(mpls_lsp_p2mp, current, current_group)
             ELSE IF current = "Ingress"
             THEN (IF MatchRe(FALSE, ingress, 1, line_stripped, 1) # NoMatch
                   THEN with([blank EXCEPT
                                !.p = w[5],
                                !.active_path =
                                    IF Len(Words(rest(ingress))) = Len(w) - 5
                                    THEN "" ELSE w[6],
                                !.lspname = Strip(rest(ingress))])
                   ELSE next(mpls_lsp_p2mp, current, current_group))
             ELSE (IF MatchRe(FALSE, other, 1, line_stripped, 1) # NoMatch
                   THEN with([blank EXCEPT
                                !.style = <<w[5], " ", w[6]>>,
                                !.labelin = w[7], !.labelout = w[8],
                                !.lspname = Strip(rest(other))])
                   ELSE next(mpls_lsp_p2mp, current, current_group))

\* after the loop: if current_group and current_section: ...append
P2mpAfterLoop(locals) ==
    IF locals.current # "" THEN P2mpFlushed(locals) ELSE locals.mpls_lsp_p2mp

_parse_show_mpls_lsp_p2mp_regex(cli_output) ==
    LET RECURSIVE Loop(_, _)
        Loop(lines, locals) ==
            IF Len(lines) = 0 THEN P2mpAfterLoop(locals)
            ELSE Loop(Tail(lines), P2mpForLine(locals, Head(lines)))
    IN  IF ~cli_output.some THEN Raise("AttributeError")
        ELSE Return(Loop(SplitLines(cli_output.text),
                         [mpls_lsp_p2mp |-> ShowMplsLspP2mp, current |-> "",
                          current_group |-> <<>>]))

parse_show_mpls_lsp_p2mp(cli_output) == _parse_show_mpls_lsp_p2mp_regex(cli_output)

\* group 8 of the peer pattern, (Active|Establ|[A-Z]\S+), on a word that the
\* pattern ends in: the first alternative that matches the beginning of the
\* word
PeerState(w) ==
    IF StartsWith(w, "Active") THEN "Active"
    ELSE IF StartsWith(w, "Establ") THEN "Establ"
    ELSE w

\* re.match(r'^\d', line_stripped) and re.match(r'^[a-zA-Z]', line_stripped)
\* on the first word of a line of the vocabulary
StartsWithDigit(w) ==
    w \in {"0", "0,", "0.1", "0.3", "01", "02", "05", "05:55:40", "05:55:40,",
          "1", "1,", "1/0", "1/1", "1/4/4/0", "10", "10.0.0.1", "10.0.0.2",
          "10.0.0.9", "1d", "1d,", "2", "2,", "20", "20.0", "3", "3,", "4",
          "40", "5", "7", "9"}
StartsWithLetter(w) ==
    w \in {"AA", "AA:02", "AS", "Accepted", "Act", "Active", "ActivePath",
          "Address", "Address:", "Adj-SID", "Adj-SID:", "Administrative",
          "Advertised", "Autonomous", "BGP", "Bit", "Bit:", "Connect",
          "Cumulative", "DN", "Default", "Description", "Description:",
          "Detect", "Direct", "Direct:", "Discard", "Dn", "Down", "Egress",
          "Establ", "Event", "Expires", "FF", "Flags", "Flags:", "From",
          "Group", "Group:", "Groups", "Groups:", "Holdtime", "Holdtime:",
          "I/O", "ID", "ID:", "IP", "Idle", "InPkt", "Ingress", "Interface",
          "Interface:", "Internal", "LSP", "LSP:", "LSPname", "Labelin",
          "Labelout", "Last", "Level", "Level:", "Local", "Local:", "MAC",
          "Mode", "Number", "OutPkt", "P", "P2MP", "Parent", "Passive",
          "Paths", "Peer", "Peer:", "Peers", "Peers:", "Pop", "Priority",
          "Priority:", "RSVP", "RSVP:", "Receive", "Received", "Router",
          "Routing-Instance", "Routing-Instance:", "Rt", "SHOW", "Seenself",
          "State", "State:", "Static", "Static:", "Style", "Suppressed",
          "Table", "Threading", "To", "Tot", "Total", "Transit", "Transition",
          "Tue", "Type", "Type:", "Up", "Up,", "Up/Dn", "Up/Down", "VR",
          "When", "a", "a1", "a2", "a3", "a4", "aa", "aa:01", "aa:02",
          "accepted", "act", "active", "active,", "activepath", "added",
          "address", "address:", "addresses", "addresses:", "adj-sid",
          "adj-sid:", "adjacency", "administrative", "advertised", "again",
          "ago", "arp", "as", "autonomous", "b1", "b2", "b3", "b4", "backup",
          "bb", "bb:01", "bfd", "bgp", "bit", "bit:", "blank", "branch", "c1",
          "c2", "c3", "c4", "client", "clients", "compare", "connect", "count",
          "count:", "cumulative", "d1", "d2", "d3", "d4", "default", "deleted",
          "description", "description:", "destinations", "destinations,",
          "detect", "dict", "direct", "direct:", "discard", "displayed",
          "displayed,", "dn", "done", "down", "e1", "e2", "e3", "e4", "eBGP",
          "ebgp", "egress", "end", "entries", "entries:", "establ", "event",
          "expires", "export", "extensive", "ff", "flags", "flags:", "flaps",
          "flaps:", "from", "g1", "g1,", "g2", "g2,", "garbage", "ge-0",
          "ge-0,", "ge-1", "green", "group", "group:", "groups", "groups:",
          "hidden)", "holddown", "holddown,", "holdtime", "holdtime:", "i/o",
          "id", "id:", "idle", "in", "indented", "inet.0", "inet.0:", "inet.3",
          "inet.3:", "ingress", "inpkt", "interface", "interface:", "internal",
          "ip", "isis", "labelin", "labelout", "last", "lcl", "learned",
          "level", "level:", "list", "lldp", "local", "local:", "log", "log:",
          "lsi.0", "lsi.0,", "lsp", "lsp1", "lsp2", "lsp:", "lspname", "ma",
          "mac", "many", "master", "match", "metric", "midline", "mode",
          "mode:", "mpls", "mpls.0", "mpls.0:", "name", "name:", "neighbor",
          "neighbor:", "neighbors", "no", "no-more", "no-resolve", "none",
          "number", "number:", "of", "other", "outpkt", "p", "p1", "p2mp",
          "parent", "passive", "paths", "peer", "peer:", "peers", "peers:",
          "perm", "plain", "pop", "pps", "pps,", "prefixes", "prefixes:",
          "priority", "priority:", "prompt", "r1", "r2", "rate", "reason",
          "receive", "received", "red", "route", "route,", "router", "routes",
          "routes,", "routing-instance", "routing-instance:", "rsvp", "rsvp:",
          "rt", "secs", "seenself", "session", "session,", "sessions",
          "sessions,", "show", "state", "state:", "static", "static:",
          "status", "str", "style", "summary", "suppressed", "system", "table",
          "text", "threading", "to", "tot", "total", "transit", "transition",
          "transition:", "transitions", "transitions:", "transmit", "tue",
          "type", "type:", "u@h>", "unidirectional", "unknown", "up", "up,",
          "up/dn", "up/down", "v1", "v2", "version", "via", "vip", "vr",
          "vrrp", "w1", "w2", "when", "x", "zz"}

\* the words of the vocabulary with one colon, what they hold before it and
\* what after it: w.split(':')
ColonWords ==
    <<"AA:02", "Address:", "Adj-SID:", "Bit:", "Description:", "Direct:",
      "Flags:", "Group:", "Groups:", "Holdtime:", "ID:", "Interface:", "LSP:",
      "Level:", "Local:", "Peer:", "Peers:", "Priority:", "RSVP:",
      "Routing-Instance:", "State:", "Static:", "Type:", "aa:01", "aa:02",
      "address:", "addresses:", "adj-sid:", "bb:01", "bit:", "count:",
      "description:", "direct:", "entries:", "flags:", "flaps:", "group:",
      "groups:", "holdtime:", "id:", "inet.0:", "inet.3:", "interface:",
      "level:", "local:", "log:", "lsp:", "mode:", "mpls.0:", "name:",
      "neighbor:", "number:", "peer:", "peers:", "prefixes:", "priority:",
      "routing-instance:", "rsvp:", "state:", "static:", "transition:",
      "transitions:", "type:">>

ColonWordStems ==
    <<"AA", "Address", "Adj-SID", "Bit", "Description", "Direct", "Flags",
      "Group", "Groups", "Holdtime", "ID", "Interface", "LSP", "Level",
      "Local", "Peer", "Peers", "Priority", "RSVP", "Routing-Instance",
      "State", "Static", "Type", "aa", "aa", "address", "addresses",
      "adj-sid", "bb", "bit", "count", "description", "direct", "entries",
      "flags", "flaps", "group", "groups", "holdtime", "id", "inet.0",
      "inet.3", "interface", "level", "local", "log", "lsp", "mode", "mpls.0",
      "name", "neighbor", "number", "peer", "peers", "prefixes", "priority",
      "routing-instance", "rsvp", "state", "static", "transition",
      "transitions", "type">>

ColonWordRests ==
    <<"02", "", "", "", "", "", "", "", "", "", "", "", "", "", "", "", "",
      "", "", "", "", "", "", "01", "02", "", "", "", "01", "", "", "", "",
      "", "", "", "", "", "", "", "", "", "", "", "", "", "", "", "", "", "",
      "", "", "", "", "", "", "", "", "", "", "", "">>

HasOneColon(w) == \E i \in 1..Len(ColonWords) : ColonWords[i] = w

BeforeColon(w) == ColonWordStems[CHOOSE i \in 1..Len(ColonWords) : ColonWords[i] = w]

AfterColon(w) == ColonWordRests[CHOOSE i \in 1..Len(ColonWords) : ColonWords[i] = w]

\* a part of a word as a text: the empty string is the empty text
Word(x) == IF x = "" THEN <<>> ELSE <<x>>

\* The loop over the lines of the BGP summary parser; its value is what the
\* function returns or raises.  current_peer is <<>> for None or holds the
\* open peer; table_name is <<>> while the local is not set.
\*   r'Groups:\s+(\d+)\s+Peers:\s+(\d+)\s+Down peers:\s+(\d+)'
\*   r'^(\S+)\s+(\d+)\s+(\d+)\s+(\d+)\s+(\d+)\s+(\d+)\s+(.+?)\s+(Active|Establ|[A-Z]\S+)'
\* In the table section int(parts[i]) is called on the first six words of
\* a line that starts with a digit and raises ValueError on a word that is
\* not a number.
_parse_show_bgp_summary_regex(cli_output) ==
    LET RECURSIVE Loop(_, _, _, _, _)
        Loop(lines, bgp_summary, current_peer, in_table_section, table_name) ==
            IF Len(lines) = 0
            THEN Return([bgp_summary EXCEPT !.peer_list = @ \o current_peer])
            ELSE LET line_stripped == Strip(Head(lines))
                     w == Words(line_stripped)
                     next(summary) ==
                        Loop(Tail(lines), summary, current_peer, in_table_section,
                             table_name)
                     skip == next(bgp_summary)
                     g == SearchRe(FALSE,
                            <<"Groups:", "\\s+", "\\d+", "\\s+", "Peers:", "\\s+", "\\d+",
                              "\\s+", "Down", " ", "peers:", "\\s+", "\\d+">>,
                            line_stripped, 1)
                     gw == WordsFrom(line_stripped, g)
                     peer_pattern ==
                        <<"\\S+", "\\s+", "\\d+", "\\s+", "\\d+", "\\s+", "\\d+",
                          "\\s+", "\\d+", "\\s+", "\\d+", "\\s+", ".+?", "\\s+",
                          "Active|Establ|[A-Z]\\S+">>
                     peer_match == MatchRe(FALSE, peer_pattern, 1, line_stripped, 1)
                     \* the word that group 8 is taken from
                     k8 == peer_match - 1
                     colons == {i \in 1..Len(line_stripped) :
                                   Contains(line_stripped[i], ":")}
                     c == CHOOSE i \in colons : TRUE
                 IN  IF Len(w) >= 2 /\ SubSeq(line_stripped, 1, 3) = <<"Threading", " ", "mode:">>
                     THEN next([bgp_summary EXCEPT !.threading_mode =
                                  Strip(SubSeq(line_stripped, 4, Len(line_stripped)))])
                     ELSE IF Len(w) >= 3 /\ SubSeq(line_stripped, 1, 5)
                                               = <<"Default", " ", "eBGP", " ", "mode:">>
                     THEN next([bgp_summary EXCEPT !.default_ebgp_mode =
                                  Strip(SubSeq(line_stripped, 6, Len(line_stripped)))])
                     ELSE IF g # 0
                     THEN next([bgp_summary EXCEPT !.groups = ToInt(gw[2]),
                                                   !.peers = ToInt(gw[4]),
                                                   !.down_peers = ToInt(DigitsAtStart(gw[7]))])
                     ELSE IF InLine("Table", line_stripped)
                             /\ InLineTwo("Tot", "Paths", line_stripped)
                     THEN Loop(Tail(lines), bgp_summary, current_peer, TRUE, table_name)
                     ELSE IF in_table_section /\ Len(w) > 0
                             /\ ~StartsWith(w[1], "Peer") /\ StartsWithLetter(w[1])
                     THEN Loop(Tail(lines), bgp_summary, current_peer, in_table_section,
                               line_stripped)
                     ELSE IF in_table_section /\ Len(w) > 0 /\ StartsWithDigit(w[1])
                     THEN (IF Len(w) < 6 THEN skip
                           ELSE IF \E i \in 1..6 : ~IsNumber(w[i]) THEN Raise("ValueError")
                           ELSE next([bgp_summary EXCEPT !.tables =
                                   Append(@, [table_name |-> table_name,
                                              total_paths |-> ToInt(w[1]),
                                              active_paths |-> ToInt(w[2]),
                                              suppressed |-> ToInt(w[3]),
                                              history |-> ToInt(w[4]),
                                              damp_state |-> ToInt(w[5]),
                                              pending |-> ToInt(w[6])])]))
                     ELSE IF Len(w) > 0 /\ StartsWith(w[1], "Peer")
                             /\ InLine("AS", line_stripped)
                     THEN Loop(Tail(lines), bgp_summary, current_peer, FALSE, table_name)
                     ELSE IF peer_match # NoMatch
                     THEN Loop(Tail(lines),
                               [bgp_summary EXCEPT !.peer_list = @ \o current_peer],
                               <<[peer |-> w[1], asn |-> w[2], in_pkt |-> w[3],
                                  out_pkt |-> w[4], out_q |-> w[5], flaps |-> w[6],
                                  last_up_dwn |->
                                     Strip(SubSeq(line_stripped,
                                                  WordAt(line_stripped, 6) + 1, k8 - 1)),
                                  state |-> PeerState(line_stripped[k8]),
                                  ribs |-> <<>>]>>,
                               in_table_section, table_name)
                     ELSE IF Len(current_peer) > 0 /\ Cardinality(colons) = 1
                             /\ HasOneColon(line_stripped[c])
                     THEN Loop(Tail(lines), bgp_summary,
                               <<[current_peer[1] EXCEPT !.ribs =
                                    Append(@, [table_name |->
                                                  SubSeq(line_stripped, 1, c - 1)
                                                  \o Word(BeforeColon(line_stripped[c])),
                                               active_received_accepted_damped |->
                                                  Strip(Word(AfterColon(line_stripped[c]))
                                                        \o SubSeq(line_stripped, c + 1,
                                                                  Len(line_stripped)))])]>>,
                               in_table_section, table_name)
                     ELSE skip
    IN  IF ~cli_output.some THEN Raise("AttributeError")
        ELSE Loop(SplitLines(cli_output.text), ShowBgpSummary, <<>>, FALSE, <<>>)

parse_show_bgp_summary(cli_output) == _parse_show_bgp_summary_regex(cli_output)

\* The loop over the lines of the BGP neighbor parser.  current_neighbor is
\* <<>> for None or holds the open neighbor; current_table says whether
\* current_table is set: it is then the last of current_neighbor.tables,
\* the same object.
\*   r'^Peer:\s+(\S+)\s+AS\s+(\d+)\s+Local:\s+(\S+)\s+AS\s+(\d+)'
\*   r'Type:\s+(\S+)\s+State:\s+(\S+)'
\*   r'Local Address:\s+(\S+)\s+Holdtime:\s+(\d+)'
\*   r'Number of flaps:\s+(\d+)', r'Table\s+(\S+)'
\*   r'Active prefixes:\s+(\d+)'   (and Received, Accepted, Advertised)
_parse_show_bgp_neighbor_regex(cli_output) ==
    LET RECURSIVE Loop(_, _, _, _)
        Loop(lines, bgp_neighbor, current_neighbor, current_table) ==
            IF Len(lines) = 0
            THEN [bgp_neighbor EXCEPT !.neighbors = @ \o current_neighbor]
            ELSE LET line_stripped == Strip(Head(lines))
                     w == Words(line_stripped)
                     peer == <<"Peer:", "\\s+", "\\S+", "\\s+", "AS", "\\s+", "\\d+", "\\s+",
                               "Local:", "\\s+", "\\S+", "\\s+", "AS", "\\s+", "\\d+">>
                     skip == Loop(Tail(lines), bgp_neighbor, current_neighbor,
                                  current_table)
                     set(neighbor) ==
                        Loop(Tail(lines), bgp_neighbor, <<neighbor>>, current_table)
                     ri == {i \in 1..Len(line_stripped) :
                               line_stripped[i] = "Routing-Instance:"}
                     ri1 == CHOOSE i \in ri : \A j \in ri : i <= j
                     \* line_stripped.split('Routing-Instance:')[1]: up to the
                     \* second 'Routing-Instance:' of the line
                     ri2 == IF ri = {ri1} THEN Len(line_stripped) + 1
                            ELSE CHOOSE i \in ri \ {ri1} : \A j \in ri \ {ri1} : i <= j
                     ty == SearchRe(FALSE, <<"Type:", "\\s+", "\\S+", "\\s+", "State:",
                                             "\\s+", "\\S+">>, line_stripped, 1)
                     la == SearchRe(FALSE, <<"Local", " ", "Address:", "\\s+", "\\S+",
                                             "\\s+", "Holdtime:", "\\s+", "\\d+">>,
                                    line_stripped, 1)
                     fl == SearchRe(FALSE, <<"Number", " ", "of", " ", "flaps:", "\\s+",
                                             "\\d+">>, line_stripped, 1)
                     stat(name) ==
                        SearchRe(FALSE, <<name, " ", "prefixes:", "\\s+", "\\d+">>,
                                 line_stripped, 1)
                     count(name) ==
                        ToInt(DigitsAtStart(WordsFrom(line_stripped, stat(name))[3]))
                     tables == current_neighbor[1].tables
                     last(table) ==
                        set([current_neighbor[1] EXCEPT !.tables[Len(tables)] = table])
                 IN  IF MatchRe(FALSE, peer, 1, line_stripped, 1) # NoMatch
                     THEN Loop(Tail(lines),
                               [bgp_neighbor EXCEPT !.neighbors = @ \o current_neighbor],
                               <<[peer |-> w[2], peer_as |-> w[4], local |-> w[6],
                                  local_as |-> DigitsAtStart(w[8]), description |-> "", group |-> "",
                                  routing_instance |-> "", type |-> "", state |-> "",
                                  local_address |-> "", holdtime |-> "",
                                  number_of_flaps |-> 0, tables |-> <<>>]>>,
                               FALSE)
                     ELSE IF Len(current_neighbor) = 0 \/ Len(w) = 0 THEN skip
                     ELSE IF StartsWith(w[1], "Description:")
                     THEN set([current_neighbor[1] EXCEPT !.description =
                                 Strip(SubSeq(line_stripped, 2, Len(line_stripped)))])
                     ELSE IF StartsWith(w[1], "Group:")
                     THEN set([current_neighbor[1] EXCEPT
                                 !.group = IF Len(w) >= 2 THEN w[2] ELSE @,
                                 !.routing_instance =
                                    IF ri = {} THEN @
                                    ELSE Strip(SubSeq(line_stripped, ri1 + 1, ri2 - 1))])
                     ELSE IF StartsWith(w[1], "Type:")
                     THEN (IF ty = 0 THEN skip
                           ELSE set([current_neighbor[1] EXCEPT
                                       !.type = WordsFrom(line_stripped, ty)[2],
                                       !.state = WordsFrom(line_stripped, ty)[4]]))
                     ELSE IF InLineTwo("Local", "Address:", line_stripped)
                     THEN (IF la = 0 THEN skip
                           ELSE set([current_neighbor[1] EXCEPT
                                       !.local_address = WordsFrom(line_stripped, la)[3],
                                       !.holdtime =
                                          DigitsAtStart(WordsFrom(line_stripped, la)[5])]))
                     ELSE IF Len(line_stripped) >= 5
                             /\ SubSeq(line_stripped, 1, 4) = <<"Number", " ", "of", " ">>
                             /\ StartsWith(line_stripped[5], "flaps:")
                     THEN (IF fl = 0 THEN skip
                           ELSE set([current_neighbor[1] EXCEPT !.number_of_flaps =
                                       ToInt(DigitsAtStart(WordsFrom(line_stripped, fl)[4]))]))
                     ELSE IF Len(w) >= 2 /\ SubSeq(line_stripped, 1, 2) = <<"Table", " ">>
                     THEN Loop(Tail(lines), bgp_neighbor,
                               <<[current_neighbor[1] EXCEPT !.tables =
                                    Append(@, [table_name |-> w[2], active_prefixes |-> 0,
                                               received_prefixes |-> 0,
                                               accepted_prefixes |-> 0,
                                               advertised_prefixes |-> 0])]>>,
                               TRUE)
                     ELSE IF ~current_table THEN skip
                     ELSE IF InLineTwo("Active", "prefixes:", line_stripped)
                     THEN (IF stat("Active") = 0 THEN skip
                           ELSE last([tables[Len(tables)] EXCEPT
                                        !.active_prefixes = count("Active")]))
                     ELSE IF InLineTwo("Received", "prefixes:", line_stripped)
                     THEN (IF stat("Received") = 0 THEN skip
                           ELSE last([tables[Len(tables)] EXCEPT
                                        !.received_prefixes = count("Received")]))
                     ELSE IF InLineTwo("Accepted", "prefixes:", line_stripped)
                     THEN (IF stat("Accepted") = 0 THEN skip
                           ELSE last([tables[Len(tables)] EXCEPT
                                        !.accepted_prefixes = count("Accepted")]))
                     ELSE IF InLineTwo("Advertised", "prefixes:", line_stripped)
                     THEN (IF stat("Advertised") = 0 THEN skip
                           ELSE last([tables[Len(tables)] EXCEPT
                                        !.advertised_prefixes = count("Advertised")]))
                     ELSE skip
    IN  IF ~cli_output.some THEN Raise("AttributeError")
        ELSE Return(Loop(SplitLines(cli_output.text), ShowBgpNeighbor, <<>>, FALSE))

parse_show_bgp_neighbor(cli_output) == _parse_show_bgp_neighbor_regex(cli_output)

\* The loop over the lines of the ISIS adjacency parser.  current_entry is
\* <<>> for None or holds the open entry.  A line opens an entry when it is
\* not empty, does not start with a blank, and has no ':'.
\*   r'Interface:\s+(\S+),\s+Level:\s+(\d+),\s+State:\s+(\S+),\s+Expires in\s+(.+)'
\*   r'Priority:\s+(\d+),\s+Up/Down transitions:\s+(\d+),\s+Last transition:\s+(.+)'
\*   r'Adj-SID:\s+(\d+),\s+Flags:\s+(\S+)'
_parse_show_isis_adjacency_extensive_regex(cli_output) ==
    LET RECURSIVE Loop(_, _, _, _)
        Loop(lines, isis_adj, current_entry, in_transition_log) ==
            IF Len(lines) = 0
            THEN [isis_adj EXCEPT !.entries = @ \o current_entry]
            ELSE LET line == Head(lines)
                     line_stripped == Strip(line)
                     w == Words(line_stripped)
                     skip == Loop(Tail(lines), isis_adj, current_entry, in_transition_log)
                     set(entry) ==
                        Loop(Tail(lines), isis_adj, <<entry>>, in_transition_log)
                     it == SearchRe(FALSE,
                             <<"Interface:", "\\s+", "\\S+,", "\\s+", "Level:", "\\s+",
                               "\\d+,", "\\s+", "State:", "\\s+", "\\S+,", "\\s+",
                               "Expires", " ", "in", "\\s+", ".+">>, line_stripped, 1)
                     iw == WordsFrom(line_stripped, it)
                     pr == SearchRe(FALSE,
                             <<"Priority:", "\\s+", "\\d+,", "\\s+", "Up/Down", " ",
                               "transitions:", "\\s+", "\\d+,", "\\s+", "Last", " ",
                               "transition:", "\\s+", ".+">>, line_stripped, 1)
                     pw == WordsFrom(line_stripped, pr)
                     sid == SearchRe(FALSE,
                             <<"Adj-SID:", "\\s+", "\\d+,", "\\s+", "Flags:", "\\s+",
                               "\\S+">>, line_stripped, 1)
                     sw == WordsFrom(line_stripped, sid)
                 IN  IF Len(line) > 0 /\ line[1] # " " /\ Len(line_stripped) > 0
                        /\ ~InLine(":", line_stripped)
                     THEN Loop(Tail(lines),
                               [isis_adj EXCEPT !.entries = @ \o current_entry],
                               <<[system_name |-> line_stripped, interface |-> "",
                                  level |-> "", state |-> "", expires_in |-> "",
                                  priority |-> "", up_down_transitions |-> 0,
                                  last_transition |-> "", circuit_type |-> "",
                                  speaks |-> "", topologies |-> "",
                                  restart_capable |-> "",
                                  adjacency_advertisement |-> "", ip_addresses |-> <<>>,
                                  adj_sids |-> <<>>, transition_log |-> <<>>]>>,
                               FALSE)
                     ELSE IF Len(current_entry) = 0 \/ Len(w) = 0 THEN skip
                     ELSE IF StartsWith(w[1], "Interface:")
                     THEN (IF it = 0 THEN skip
                           ELSE set([current_entry[1] EXCEPT
                                       !.interface = BeforeComma(iw[2]),
                                       !.level = Digits(iw[4]),
                                       !.state = BeforeComma(iw[6]),
                                       !.expires_in = FromWord(SubSeq(line_stripped, it,
                                                        Len(line_stripped)), 9)]))
                     ELSE IF StartsWith(w[1], "Priority:")
                     THEN (IF pr = 0 THEN skip
                           ELSE set([current_entry[1] EXCEPT
                                       !.priority = Digits(pw[2]),
                                       !.up_down_transitions = ToInt(Digits(pw[5])),
                                       !.last_transition = FromWord(SubSeq(line_stripped,
                                                        pr, Len(line_stripped)), 8)]))
                     ELSE IF Len(w) >= 2 /\ SubSeq(line_stripped, 1, 2) = <<"IP", " ">>
                             /\ StartsWith(line_stripped[3], "addresses:")
                     THEN set([current_entry[1] EXCEPT !.ip_addresses =
                                 @ \o SubSeq(w, 3, Len(w))])
                     ELSE IF InLine("Adj-SID:", line_stripped)
                     THEN (IF sid = 0 THEN skip
                           ELSE set([current_entry[1] EXCEPT !.adj_sids =
                                       Append(@, [sid |-> Digits(sw[2]),
                                                  flags |-> sw[4]])]))
                     ELSE IF Len(w) >= 2 /\ SubSeq(line_stripped, 1, 2) = <<"Transition", " ">>
                             /\ StartsWith(line_stripped[3], "log:")
                     THEN Loop(Tail(lines), isis_adj, current_entry, TRUE)
                     ELSE IF in_transition_log /\ StartsWith(w[1], "When") THEN skip
                     ELSE IF in_transition_log /\ Len(w) >= 3
                     THEN set([current_entry[1] EXCEPT !.transition_log =
                                 Append(@, [when |-> <<w[1], " ", w[2], " ", w[3]>>,
                                            state |-> IF Len(w) >= 4 THEN w[4] ELSE "",
                                            event |-> IF Len(w) >= 5 THEN w[5] ELSE "",
                                            down_reason |->
                                               IF Len(w) >= 6 THEN FromWord(line_stripped, 6)
                                               ELSE ""])])
                     ELSE skip
    IN  IF ~cli_output.some THEN Raise("AttributeError")
        ELSE Return(Loop(SplitLines(cli_output.text), ShowIsisAdjacencyExtensive,
                         <<>>, FALSE))

parse_show_isis_adjacency_extensive(cli_output) == _parse_show_isis_adjacency_extensive_regex(cli_output)

\* The loop over the lines of the route summary parser.  current_table is
\* <<>> for None or holds the open table.
\*   r'^(\S+):\s+(\d+)\s+destinations,\s+(\d+)\s+routes\s+\((\d+)\s+active,
\*     \s+(\d+)\s+holddown,\s+(\d+)\s+hidden\)'
\*   r'^([A-Z][A-Za-z0-9-]+):\s+(\d+)\s+routes?,\s+(\d+)\s+active'
_parse_show_route_summary_regex(cli_output) ==
    LET RECURSIVE Loop(_, _, _)
        Loop(lines, route_summary, current_table) ==
            IF Len(lines) = 0
            THEN [route_summary EXCEPT !.tables = @ \o current_table]
            ELSE LET line_stripped == Strip(Head(lines))
                     w == Words(line_stripped)
                     rest(k) == Strip(SubSeq(line_stripped, k, Len(line_stripped)))
                     summary ==
                        IF Len(line_stripped) >= 5
                              /\ SubSeq(line_stripped, 1, 4)
                                    = <<"Autonomous", " ", "system", " ">>
                              /\ StartsWith(line_stripped[5], "number:")
                        THEN [route_summary EXCEPT !.autonomous_system = rest(6)]
                        ELSE IF Len(line_stripped) >= 3
                                /\ SubSeq(line_stripped, 1, 2) = <<"Router", " ">>
                                /\ StartsWith(line_stripped[3], "ID:")
                        THEN [route_summary EXCEPT !.router_id = rest(4)]
                        ELSE route_summary
                     protocol == <<"[A-Z][A-Za-z0-9-]+:", "\\s+", "\\d+", "\\s+", "routes?,",
                                   "\\s+", "\\d+", "\\s+", "active">>
                 IN  IF MatchRe(FALSE, RouteHeaderPattern("\\S+:"), 1, line_stripped, 1)
                            # NoMatch
                     THEN Loop(Tail(lines),
                               [summary EXCEPT !.tables = @ \o current_table],
                               <<[table_name |-> BeforeColon(w[1]),
                                  destinations |-> ToInt(w[2]), routes |-> ToInt(w[4]),
                                  active |-> ToInt(Digits(w[6])),
                                  holddown |-> ToInt(w[8]), hidden |-> ToInt(w[10]),
                                  protocols |-> <<>>]>>)
                     ELSE IF Len(current_table) > 0
                             /\ MatchRe(FALSE, protocol, 1, line_stripped, 1) # NoMatch
                     THEN Loop(Tail(lines), summary,
                               <<[current_table[1] EXCEPT !.protocols =
                                    Append(@, [protocol |-> BeforeColon(w[1]),
                                               routes |-> ToInt(w[2]),
                                               active |-> ToInt(w[4])])]>>)
                     ELSE Loop(Tail(lines), summary, current_table)
    IN  IF ~cli_output.some THEN Raise("AttributeError")
        ELSE Return(Loop(SplitLines(cli_output.text), ShowRouteSummary, <<>>))

parse_show_route_summary(cli_output) == _parse_show_route_summary_regex(cli_output)

\* not cli_output or cli_output.strip() == "" or
\* cli_output.strip().lower() == "none"
IsEmptyOutput(cli_output) ==
    \/ ~cli_output.some
    \/ Strip(cli_output.text) = <<>>
    \/ (Len(Strip(cli_output.text)) = 1 /\ Lower(Strip(cli_output.text)[1]) = "none")

parse_show_rsvp_session_match_dn(cli_output) ==
    IF IsEmptyOutput(cli_output) THEN Return(ShowRsvpSession)
    ELSE _parse_show_rsvp_session_regex(cli_output)

parse_show_mpls_lsp_unidirectional_match_dn(cli_output) ==
    IF IsEmptyOutput(cli_output) THEN Return(ShowMplsLsp)
    ELSE _parse_show_mpls_lsp_regex(cli_output)

parse_show_rsvp_session_first(cli_output) ==
    IF IsEmptyOutput(cli_output) THEN Return(ShowRsvpSession)
    ELSE _parse_show_rsvp_session_regex(cli_output)

parse_show_rsvp_session_second(cli_output) ==
    IF IsEmptyOutput(cli_output) THEN Return(ShowRsvpSession)
    ELSE _parse_show_rsvp_session_regex(cli_output)

parse_show_rsvp_session_ma(cli_output) ==
    IF IsEmptyOutput(cli_output) THEN Return(ShowRsvpSession)
    ELSE _parse_show_rsvp_session_regex(cli_output)

parse_show_mpls_lsp_unidirectional(cli_output) ==
    IF IsEmptyOutput(cli_output) THEN Return(ShowMplsLsp)
    ELSE _parse_show_mpls_lsp_regex(cli_output)

\* the parser of command n; genie is what Genie does in the call (ARP only)
Parse(n, cli_output, genie) ==
    CASE n = 1 -> parse_show_arp_no_resolve(cli_output, genie)
      [] n = 2 -> parse_show_vrrp_summary(cli_output)
      [] n = 3 -> parse_show_lldp_neighbors(cli_output)
      [] n = 4 -> parse_show_bfd_session(cli_output)
      [] n = 5 -> parse_show_rsvp_neighbor(cli_output)
      [] n = 6 -> parse_show_rsvp_session(cli_output)
      [] n = 7 -> parse_show_route_table_inet0(cli_output)
      [] n = 8 -> parse_show_route_table_inet3(cli_output)
      [] n = 9 -> parse_show_route_table_mpls0(cli_output)
      [] n = 10 -> parse_show_mpls_interface(cli_output)
      [] n = 11 -> parse_show_mpls_lsp(cli_output)
      [] n = 12 -> parse_show_mpls_lsp_p2mp(cli_output)
      [] n = 13 -> parse_show_bgp_summary(cli_output)
      [] n = 14 -> parse_show_bgp_neighbor(cli_output)
      [] n = 15 -> parse_show_isis_adjacency_extensive(cli_output)
      [] n = 16 -> parse_show_route_summary(cli_output)
      [] n = 17 -> parse_show_rsvp_session_match_dn(cli_output)
      [] n = 18 -> parse_show_mpls_lsp_unidirectional_match_dn(cli_output)
      [] n = 19 -> parse_show_rsvp_session_first(cli_output)
      [] n = 20 -> parse_show_rsvp_session_second(cli_output)
      [] n = 21 -> parse_show_rsvp_session_ma(cli_output)
      [] n = 22 -> parse_show_mpls_lsp_unidirectional(cli_output)

Parsers == 1..22

(***************************************************************************)
(* mx80_models.py: to_dict                                                 *)
(***************************************************************************)
ShowArpNoResolve_to_dict(self) ==
    [total_entries |-> self.total_entries,
     entries |-> [i \in 1..Len(self.entries) |->
                    [mac_address |-> self.entries[i].mac_address,
                     ip_address |-> self.entries[i].ip_address,
                     interface |-> self.entries[i].interface,
                     flags |-> self.entries[i].flags]]]

ShowVrrpSummary_to_dict(self) ==
    [entries |-> [i \in 1..Len(self.entries) |->
                    [interface |-> self.entries[i].interface,
                     state |-> self.entries[i].state,
                     group |-> self.entries[i].group,
                     vr_state |-> self.entries[i].vr_state,
                     vr_mode |-> self.entries[i].vr_mode,
                     addresses |->
                        [j \in 1..Len(self.entries[i].addresses) |->
                            [type |-> self.entries[i].addresses[j].type,
                             address |-> self.entries[i].addresses[j].address]]]]]

(***************************************************************************)
(* network_config_comparator.py.  A comparison is a JSON value: a str, a   *)
(* list of values, or a dict, kept as the list of its items in insertion    *)
(* order.                                                                  *)
(***************************************************************************)
JStr(s) == [kind |-> "str", str |-> s, items |-> <<>>]
JList(values) == [kind |-> "list", str |-> "", items |-> values]
JDict(items) == [kind |-> "dict", str |-> "", items |-> items]
KV(k, v) == [key |-> k, value |-> v]

\* key in d, and d[key]
JHas(d, k) == \E i \in 1..Len(d.items) : d.items[i].key = k
JGet(d, k) == d.items[CHOOSE i \in 1..Len(d.items) : d.items[i].key = k].value

\* the order of str on the words that serve as keys (code points)
StrRank(w) ==
    CASE w = "10.0.0.1" -> 1
      [] w = "10.0.0.2" -> 2
      [] w = "10.0.0.9" -> 3
      [] w = "ge-0" -> 4
      [] w = "ge-1" -> 5
      [] w = "unknown" -> 6

\* a < b for two ip_address keys, and for two (interface, group) keys
ArpKeyLess(a, b) == StrRank(a) < StrRank(b)
VrrpKeyLess(a, b) ==
    \/ StrRank(a[1]) < StrRank(b[1])
    \/ (a[1] = b[1] /\ a[2] < b[2])

\* EntryKey with the ARP entries under their interface
EntryKey_by_interface(command, entry) ==
    IF command = "arp" THEN entry.interface ELSE <<entry.interface, entry.group>>

\* the key of an entry in the comparison of a command, and a < b on keys
EntryKey(command, entry) ==
    IF command = "arp" THEN entry.ip_address ELSE <<entry.interface, entry.group>>

KeyLess(command, a, b) ==
    IF command = "arp" THEN ArpKeyLess(a, b) ELSE VrrpKeyLess(a, b)

\* Sorted with the keys in descending order
Sorted_descending(command, keys) ==
    [i \in 1..Cardinality(keys) |->
        CHOOSE k \in keys :
            Cardinality({m \in keys : KeyLess(command, k, m)}) = i - 1]

\* sorted(keys): the key at position i has i - 1 keys below it
Sorted(command, keys) ==
    [i \in 1..Cardinality(keys) |->
        CHOOSE k \in keys :
            Cardinality({m \in keys : KeyLess(command, m, k)}) = i - 1]

\* IndexBy with the first entry of a key kept
IndexBy_first(command, entries) ==
    [k \in {EntryKey(command, entries[i]) : i \in 1..Len(entries)} |->
        entries[CHOOSE i \in 1..Len(entries) :
                    /\ EntryKey(command, entries[i]) = k
                    /\ \A j \in 1..(i - 1) :
                          EntryKey(command, entries[j]) # k]]

\* {key(entry): entry for entry in entries}: a later entry replaces an
\* earlier one of the same key
IndexBy(command, entries) ==
    [k \in {EntryKey(command, entries[i]) : i \in 1..Len(entries)} |->
        entries[CHOOSE i \in 1..Len(entries) :
                    /\ EntryKey(command, entries[i]) = k
                    /\ \A j \in (i + 1)..Len(entries) :
                          EntryKey(command, entries[j]) # k]]

\* compare_values with the test turned around
compare_values_inverted(pre_val, post_val) ==
    IF pre_val # post_val THEN "green" ELSE "red"

compare_values(pre_val, post_val) == IF pre_val = post_val THEN "green" ELSE "red"

\* ArpOneSided with the flags field left out of the marking
ArpOneSided_partial(status) ==
    JDict(<<KV("ip_address", JStr("red")), KV("mac_address", JStr("red")),
            KV("interface", JStr("red")), KV("flags", JStr("green")),
            KV("status", JStr(status))>>)

\* the comparison entry of a key that only one side holds
ArpOneSided(status) ==
    JDict(<<KV("ip_address", JStr("red")), KV("mac_address", JStr("red")),
            KV("interface", JStr("red")), KV("flags", JStr("red")),
            KV("status", JStr(status))>>)

\* compare_arp_entries with the first entry of a key kept in pre_dict
compare_arp_entries_first_of_pre(pre_entries, post_entries) ==
    LET pre_dict == IndexBy_first("arp", pre_entries)
        post_dict == IndexBy("arp", post_entries)
        all_ips == DOMAIN pre_dict \cup DOMAIN post_dict
        order == Sorted("arp", all_ips)
        comp_entry(ip) ==
            IF ip \in DOMAIN pre_dict /\ ip \in DOMAIN post_dict
            THEN JDict(<<
                KV("ip_address", JStr(compare_values(pre_dict[ip].ip_address,
                                                     post_dict[ip].ip_address))),
                KV("mac_address", JStr(compare_values(pre_dict[ip].mac_address,
                                                      post_dict[ip].mac_address))),
                KV("interface", JStr(compare_values(pre_dict[ip].interface,
                                                    post_dict[ip].interface))),
                KV("flags", JStr(compare_values(pre_dict[ip].flags,
                                                post_dict[ip].flags)))>>)
            ELSE IF ip \in DOMAIN pre_dict THEN ArpOneSided("deleted")
            ELSE ArpOneSided("added")
    IN  [i \in 1..Len(order) |-> comp_entry(order[i])]

compare_arp_entries(pre_entries, post_entries) ==
    LET pre_dict == IndexBy("arp", pre_entries)
        post_dict == IndexBy("arp", post_entries)
        all_ips == DOMAIN pre_dict \cup DOMAIN post_dict
        order == Sorted("arp", all_ips)
        comp_entry(ip) ==
            IF ip \in DOMAIN pre_dict /\ ip \in DOMAIN post_dict
            THEN JDict(<<
                KV("ip_address", JStr(compare_values(pre_dict[ip].ip_address,
                                                     post_dict[ip].ip_address))),
                KV("mac_address", JStr(compare_values(pre_dict[ip].mac_address,
                                                      post_dict[ip].mac_address))),
                KV("interface", JStr(compare_values(pre_dict[ip].interface,
                                                    post_dict[ip].interface))),
                KV("flags", JStr(compare_values(pre_dict[ip].flags,
                                                post_dict[ip].flags)))>>)
            ELSE IF ip \in DOMAIN pre_dict THEN ArpOneSided("deleted")
            ELSE ArpOneSided("added")
    IN  [i \in 1..Len(order) |-> comp_entry(order[i])]

\* VrrpOneSided with 'deleted' for either side
VrrpOneSided_deleted(status) ==
    JDict(<<KV("interface", JStr("red")), KV("state", JStr("red")),
            KV("group", JStr("red")), KV("vr_state", JStr("red")),
            KV("vr_mode", JStr("red")), KV("addresses", JStr("red")),
            KV("status", JStr("deleted"))>>)

\* the comparison entry of a key that only one side holds
VrrpOneSided(status) ==
    JDict(<<KV("interface", JStr("red")), KV("state", JStr("red")),
            KV("group", JStr("red")), KV("vr_state", JStr("red")),
            KV("vr_mode", JStr("red")), KV("addresses", JStr("red")),
            KV("status", JStr(status))>>)

\* VrrpBothSides with the addresses compared as sets of addresses
VrrpBothSides_by_members(pre_entry, post_entry) ==
    JDict(<<
        KV("interface", JStr(compare_values(pre_entry.interface, post_entry.interface))),
        KV("state", JStr(compare_values(pre_entry.state, post_entry.state))),
        KV("group", JStr(compare_values(pre_entry.group, post_entry.group))),
        KV("vr_state", JStr(compare_values(pre_entry.vr_state, post_entry.vr_state))),
        KV("vr_mode", JStr(compare_values(pre_entry.vr_mode, post_entry.vr_mode))),
        KV("addresses", JStr(compare_values(
            {pre_entry.addresses[i] : i \in 1..Len(pre_entry.addresses)},
            {post_entry.addresses[i] : i \in 1..Len(post_entry.addresses)})))>>)

\* the comparison entry of a key that both sides hold
VrrpBothSides(pre_entry, post_entry) ==
    JDict(<<
        KV("interface", JStr(compare_values(pre_entry.interface, post_entry.interface))),
        KV("state", JStr(compare_values(pre_entry.state, post_entry.state))),
        KV("group", JStr(compare_values(pre_entry.group, post_entry.group))),
        KV("vr_state", JStr(compare_values(pre_entry.vr_state, post_entry.vr_state))),
        KV("vr_mode", JStr(compare_values(pre_entry.vr_mode, post_entry.vr_mode))),
        KV("addresses", JStr(compare_values(pre_entry.addresses,
                                            post_entry.addresses)))>>)

compare_vrrp_entries(pre_entries, post_entries) ==
    LET pre_dict == IndexBy("vrrp", pre_entries)
        post_dict == IndexBy("vrrp", post_entries)
        all_keys == DOMAIN pre_dict \cup DOMAIN post_dict
        order == Sorted("vrrp", all_keys)
        comp_entry(key) ==
            IF key \in DOMAIN pre_dict /\ key \in DOMAIN post_dict
            THEN VrrpBothSides(pre_dict[key], post_dict[key])
            ELSE IF key \in DOMAIN pre_dict THEN VrrpOneSided("deleted")
            ELSE VrrpOneSided("added")
    IN  [i \in 1..Len(order) |-> comp_entry(order[i])]

compare_show_arp(pre_arp, post_arp) ==
    JDict(<<KV("total_entries",
               JStr(compare_values(pre_arp.total_entries, post_arp.total_entries))),
            KV("entries",
               JList(compare_arp_entries(pre_arp.entries, post_arp.entries)))>>)

compare_show_vrrp(pre_vrrp, post_vrrp) ==
    JDict(<<KV("entries",
               JList(compare_vrrp_entries(pre_vrrp.entries, post_vrrp.entries)))>>)

\* pre and post (pre_data and post_data) map command names to the dicts of
\* the parsers; a command is compared when both hold it
generate_comparison(pre, post) ==
    JDict(
        (IF "show_arp_no_resolve" \in DOMAIN pre
            /\ "show_arp_no_resolve" \in DOMAIN post
         THEN <<KV("show_arp_no_resolve",
                   compare_show_arp(pre["show_arp_no_resolve"],
                                    post["show_arp_no_resolve"]))>>
         ELSE <<>>)
        \o
        (IF "show_vrrp_summary" \in DOMAIN pre
            /\ "show_vrrp_summary" \in DOMAIN post
         THEN <<KV("show_vrrp_summary",
                   compare_show_vrrp(pre["show_vrrp_summary"],
                                     post["show_vrrp_summary"]))>>
         ELSE <<>>))

\* "red" when a str "red" is found in a dict or a list at any depth; a str
\* is its own colour
\* determine_overall_color looking at the values of the top level only
determine_overall_color_flat(comparison_data) ==
    IF comparison_data.kind \in {"dict", "list"}
    THEN IF \E i \in 1..Len(comparison_data.items) :
                LET c == IF comparison_data.kind = "dict"
                         THEN comparison_data.items[i].value
                         ELSE comparison_data.items[i]
                IN  c.kind = "str" /\ c.str = "red"
         THEN "red" ELSE "green"
    ELSE IF comparison_data.kind = "str" THEN comparison_data.str
    ELSE "green"

RECURSIVE determine_overall_color(_)
determine_overall_color(comparison_data) ==
    LET child(i) == IF comparison_data.kind = "dict"
                    THEN comparison_data.items[i].value
                    ELSE comparison_data.items[i]
    IN  IF comparison_data.kind \in {"dict", "list"}
        THEN IF \E i \in 1..Len(comparison_data.items) :
                    \/ (child(i).kind = "str" /\ child(i).str = "red")
                    \/ (child(i).kind \in {"dict", "list"}
                          /\ determine_overall_color(child(i)) = "red")
             THEN "red" ELSE "green"
        ELSE IF comparison_data.kind = "str" THEN comparison_data.str
        ELSE "green"

\* the commands of data in insertion order
CommandNames(data) ==
    SelectSeq(<<"show_arp_no_resolve", "show_vrrp_summary">>,
              LAMBDA name : name \in DOMAIN data)

\* The status column: for every command of pre_data, MATCH or CHANGED from
\* determine_overall_color(comparison[command_name]); comparison[...] and
\* post_data[...] raise KeyError for a command they do not hold.
export_to_excel(pre, post, comp) ==
    LET names == CommandNames(pre)
    IN  IF \E i \in 1..Len(names) :
              ~JHas(comp, names[i]) \/ names[i] \notin DOMAIN post
        THEN Raise("KeyError")
        ELSE Return([i \in 1..Len(names) |->
                KV(names[i],
                   IF determine_overall_color(JGet(comp, names[i])) = "green"
                   THEN "MATCH" ELSE "CHANGED")])

\* parse_file after read_mx80_show_commands has returned the text of the
\* file: line 37 calls extract_show_arp_output, a name the module binds
\* nowhere (command_segmenter defines extract_show_arp_output_1 and
\* extract_show_vrrp_summary_output_2, and the import of the two names
\* without suffix raises ImportError when the module is loaded), so the call
\* raises NameError before an extractor or a parser has run
parse_file(raw_output) == Raise("NameError")

(***************************************************************************)
(* The parsers as a state machine: a caller holds a segment, as returned   *)
(* by an extractor, and calls a parser on it.                              *)
(***************************************************************************)
CallParse(n) ==
    /\ parser = 0
    /\ parser' = n
    /\ \E g \in (IF n = 1 THEN GenieOutcomes(segment) ELSE {genie_outcome}) :
          genie_outcome' = g /\ result' = Parse(n, segment, g)
    /\ UNCHANGED <<segVars, diffVars, callVars>>

NextParse == \E n \in Parsers : CallParse(n)

(***************************************************************************)
(* The main program of network_config_comparator.py: parse_both_files,     *)
(* generate_comparison, export_to_excel.  An exception ends it: the one    *)
(* parse_file raises on the first snapshot ends parse_both_files, and the  *)
(* program calls neither generate_comparison nor export_to_excel.  The two *)
(* are steps of a caller that holds the parsed data of both snapshots.     *)
(***************************************************************************)
ParseFile ==
    /\ pc \in {"parse_pre", "parse_post"}
    /\ \E r \in {parse_file(IF pc = "parse_pre" THEN pre_file ELSE post_file)} :
          IF r.raised
          THEN /\ result' = r
               /\ pc' = "raised"
               /\ UNCHANGED <<pre_data, post_data>>
          ELSE /\ UNCHANGED result
               /\ IF pc = "parse_pre"
                  THEN pre_data' = r.value /\ pc' = "parse_post"
                                           /\ UNCHANGED post_data
                  ELSE post_data' = r.value /\ pc' = "compare"
                                            /\ UNCHANGED pre_data
    /\ UNCHANGED <<segVars, parser, genie_outcome, pre_file, post_file,
                   comparison, callVars>>

GenerateComparison ==
    /\ pc = "compare"
    /\ comparison' = generate_comparison(pre_data, post_data)
    /\ pc' = "export"
    /\ UNCHANGED <<segVars, parseVars, pre_file, post_file, pre_data, post_data,
                   callVars>>

ExportToExcel ==
    /\ pc = "export"
    /\ result' = export_to_excel(pre_data, post_data, comparison)
    /\ pc' = IF export_to_excel(pre_data, post_data, comparison).raised
             THEN "raised" ELSE "done"
    /\ UNCHANGED <<segVars, parser, genie_outcome, pre_file, post_file, pre_data,
                   post_data, comparison, callVars>>

NextPipe == ParseFile
NextDiff == GenerateComparison \/ ExportToExcel

(***************************************************************************)
(* Segments without text, for the parsers.                                 *)
(***************************************************************************)
MaxBlank == 2       \* blanks and newlines in a segment without text

BlankTexts == UNION {[1..m -> {SP, NL}] : m \in 0..MaxBlank}

EmptySegments == {None} \cup {Some(t) : t \in BlankTexts}

InitParse ==
    /\ terminal_output = <<>>
    /\ extractor = 0
    /\ segment \in EmptySegments
    /\ NoParse /\ NoDiff

SpecParse == InitParse /\ [][NextParse]_vars

(***************************************************************************)
(* Transcripts with the two commands the comparator reads.                 *)
(***************************************************************************)
ArpE1 == <<"aa:01", SP, "10.0.0.1", SP, "ge-0", SP, "none">>
ArpE2 == <<"bb:01", SP, "10.0.0.2", SP, "ge-1", SP, "none">>

\* the decimal numeral of n
NumWord(n) == <<"0", "1", "2", "3">>[n + 1]

\* the lines of s, each after a newline
RECURSIVE AfterNewlines(_)
AfterNewlines(lines) ==
    IF Len(lines) = 0 THEN <<>>
    ELSE <<NL>> \o Head(lines) \o AfterNewlines(Tail(lines))

\* the ARP command, its table and the line that counts the entries
ArpBlock(entries) ==
    CommandLine(1) \o AfterNewlines(entries)
        \o <<NL, "Total", SP, "entries:", SP, NumWord(Len(entries))>>

ArpTables == {<<>>, <<ArpE1>>, <<ArpE1, ArpE2>>}

VrrpHeader ==
    <<"Interface", SP, "State", SP, "Group", SP, "VR", SP, "state", SP, "VR",
      SP, "Mode", SP, "Type", SP, "Address">>
VrrpV1 ==
    <<"ge-0", SP, "up", SP, "1", SP, "master", SP, "Active", SP, "lcl", SP,
      "10.0.0.1">>
VrrpV1down ==
    <<"ge-0", SP, "down", SP, "1", SP, "master", SP, "Active", SP, "lcl", SP,
      "10.0.0.1">>
VrrpV2 ==
    <<"ge-1", SP, "up", SP, "2", SP, "backup", SP, "Active", SP, "lcl", SP,
      "10.0.0.2">>
VrrpCont == <<SP, SP, "vip", SP, "10.0.0.9">>

\* the VRRP command and its table
VrrpBlock(lines) == CommandLine(2) \o AfterNewlines(lines)

VrrpTables ==
    {<<VrrpHeader, VrrpV1>>, <<VrrpHeader, VrrpV1, VrrpCont>>,
     <<VrrpHeader, VrrpV1, VrrpV2>>, <<VrrpHeader, VrrpV1down, VrrpV2>>}

\* a transcript: the blocks of the commands it holds, then a last prompt
RECURSIVE Transcript(_)
Transcript(blocks) ==
    IF Len(blocks) = 0 THEN <<Prompt>>
    ELSE Head(blocks) \o <<NL>> \o Transcript(Tail(blocks))

PipeTranscripts ==
    {Transcript(a \o v) :
        a \in {<<>>} \cup {<<ArpBlock(t)>> : t \in ArpTables},
        v \in {<<>>} \cup {<<VrrpBlock(t)>> : t \in VrrpTables}}

InitPipe ==
    /\ terminal_output = <<>>
    /\ extractor = 0
    /\ segment = None
    /\ NoParse
    /\ pre_file \in PipeTranscripts
    /\ post_file \in PipeTranscripts
    /\ pre_data = <<>> /\ post_data = <<>>
    /\ comparison = JDict(<<>>)
    /\ pc = "parse_pre"

SpecPipe == InitPipe /\ [][NextPipe]_vars

(***************************************************************************)
(* Parsed data for the diff: entry lists with shared keys, keys on one     *)
(* side only, entries that differ in one field, and repeated keys.         *)
(***************************************************************************)
MaxEntries == 2     \* entries in a list handed to the diff

Lists(S) == UNION {[1..m -> S] : m \in 0..MaxEntries}

ArpBase1 ==
    [mac_address |-> "aa:01", ip_address |-> "10.0.0.1", interface |-> "ge-0",
     flags |-> "none"]
ArpBase2 ==
    [mac_address |-> "bb:01", ip_address |-> "10.0.0.2", interface |-> "ge-1",
     flags |-> "none"]

PreArpEntries == {ArpBase1, [ArpBase1 EXCEPT !.mac_address = "aa:02"], ArpBase2}
PostArpEntries ==
    PreArpEntries \cup {[ArpBase1 EXCEPT !.interface = "ge-1"],
                        [ArpBase1 EXCEPT !.flags = "perm"]}

VrrpBase ==
    [interface |-> "ge-0", state |-> "up", group |-> 1, vr_state |-> "master",
     vr_mode |-> "Active",
     addresses |-> <<[type |-> "lcl", address |-> "10.0.0.1"]>>]

PreVrrpEntries ==
    {VrrpBase, [VrrpBase EXCEPT !.group = 2], [VrrpBase EXCEPT !.interface = "ge-1"]}
PostVrrpEntries ==
    PreVrrpEntries
    \cup {[VrrpBase EXCEPT !.state = "down"],
          [VrrpBase EXCEPT !.vr_state = "backup"],
          [VrrpBase EXCEPT !.vr_mode = "Passive"],
          [VrrpBase EXCEPT !.addresses =
                Append(@, [type |-> "vip", address |-> "10.0.0.9"])]}

\* the dict of a parsed ARP table; more is what the count line adds to the
\* number of entries
ArpData(entries, more) ==
    [total_entries |-> Len(entries) + more, entries |-> entries]

OnlyArp(d) == "show_arp_no_resolve" :> d
OnlyVrrp(d) == "show_vrrp_summary" :> d

ArpPairs ==
    {<<OnlyArp(ArpData(a, 0)), OnlyArp(ArpData(b, more))>> :
        a \in Lists(PreArpEntries), b \in Lists(PostArpEntries), more \in {0, 1}}

VrrpPairs ==
    {<<OnlyVrrp([entries |-> a]), OnlyVrrp([entries |-> b])>> :
        a \in Lists(PreVrrpEntries), b \in Lists(PostVrrpEntries)}

\* one VRRP entry on each side, under the same key, with address lists
\* that differ in length, in order or in an element
VrrpAddresses ==
    {[type |-> "lcl", address |-> "10.0.0.1"],
     [type |-> "lcl", address |-> "10.0.0.2"],
     [type |-> "vip", address |-> "10.0.0.9"]}

VrrpAddressPairs ==
    {<<OnlyVrrp([entries |-> <<[VrrpBase EXCEPT !.addresses = a]>>]),
       OnlyVrrp([entries |-> <<[VrrpBase EXCEPT !.addresses = b]>>])>> :
        a \in Lists(VrrpAddresses), b \in Lists(VrrpAddresses)}

\* data of both commands, and data that lacks a command on one side
SomeData ==
    {<<>>, OnlyArp(ArpData(<<ArpBase1>>, 0)), OnlyVrrp([entries |-> <<VrrpBase>>]),
     OnlyArp(ArpData(<<ArpBase1>>, 0)) @@ OnlyVrrp([entries |-> <<VrrpBase>>]),
     OnlyArp(ArpData(<<ArpBase2>>, 0)) @@ OnlyVrrp([entries |-> <<>>])}

DiffPairs ==
    ArpPairs \cup VrrpPairs \cup VrrpAddressPairs \cup (SomeData \X SomeData)

InitDiff ==
    /\ terminal_output = <<>>
    /\ extractor = 0
    /\ segment = None
    /\ NoParse
    /\ pre_file = <<>> /\ post_file = <<>>
    /\ \E pair \in DiffPairs : pre_data = pair[1] /\ post_data = pair[2]
    /\ comparison = JDict(<<>>)
    /\ pc = "compare"

SpecDiff == InitDiff /\ [][NextDiff]_vars

(***************************************************************************)
(* C7.  For every parser, parse(None) and parse("") return the zero value  *)
(* of the command: the collection as constructed, with empty entry lists,  *)
(* zero totals and no sections; neither call raises.                       *)
(***************************************************************************)
ZeroValue(n) ==
    CASE n = 1 -> ShowArpNoResolve
      [] n = 2 -> ShowVrrpSummary
      [] n = 3 -> ShowLldpNeighbors
      [] n = 4 -> ShowBfdSession
      [] n = 5 -> ShowRsvpNeighbor
      [] n \in {6, 17, 19, 20, 21} -> ShowRsvpSession
      [] n = 7 -> ShowRouteTableInet0
      [] n = 8 -> ShowRouteTableInet3
      [] n = 9 -> ShowRouteTableMpls0
      [] n = 10 -> ShowMplsInterface
      [] n \in {11, 18, 22} -> ShowMplsLsp
      [] n = 12 -> ShowMplsLspP2mp
      [] n = 13 -> ShowBgpSummary
      [] n = 14 -> ShowBgpNeighbor
      [] n = 15 -> ShowIsisAdjacencyExtensive
      [] n = 16 -> ShowRouteSummary

C7_EmptySegmentGivesZeroValue ==
    (parser # 0 /\ segment \in {None, Some(<<>>)})
    => (~result.raised /\ result.value = ZeroValue(parser))

(***************************************************************************)
(* C8.  When a command is absent from the transcript of one snapshot, the  *)
(* pipeline extract -> parse -> diff does not raise, the comparison holds  *)
(* the command, and every key of the other side has a comparison entry of  *)
(* status 'added' (the command is absent before the update) or 'deleted'   *)
(* (absent after it).                                                      *)
(***************************************************************************)
CommandNumber(name) == IF name = "show_arp_no_resolve" THEN 1 ELSE 2

\* the key of an entry in the diff of a command
KeyOf(name, entry) ==
    IF name = "show_arp_no_resolve" THEN entry.ip_address
    ELSE <<entry.interface, entry.group>>

KeysOf(name, entries) == {KeyOf(name, entries[i]) : i \in 1..Len(entries)}

\* the comparison entries of a command
EntriesOf(name) == JGet(JGet(comparison, name), "entries").items

\* every comparison entry of the command carries the status, and there is
\* one for each key of entries
AllOfStatus(name, entries, status) ==
    /\ JHas(comparison, name)
    /\ Len(EntriesOf(name)) = Cardinality(KeysOf(name, entries))
    /\ \A i \in 1..Len(EntriesOf(name)) :
          /\ JHas(EntriesOf(name)[i], "status")
          /\ JGet(EntriesOf(name)[i], "status").str = status

C8_AbsentCommandIsEmptySide ==
    \A name \in {"show_arp_no_resolve", "show_vrrp_summary"} :
        LET inPre == Occurrences(CommandNumber(name), pre_file) # {}
            inPost == Occurrences(CommandNumber(name), post_file) # {}
        IN  (pc # "idle" /\ inPre # inPost)
            => /\ pc # "raised"
               /\ (pc \in {"export", "done"} /\ inPre)
                     => AllOfStatus(name, pre_data[name].entries, "deleted")
               /\ (pc \in {"export", "done"} /\ inPost)
                     => AllOfStatus(name, post_data[name].entries, "added")

(***************************************************************************)
(* The diff as the specification describes it: entries are indexed by key, *)
(* the last entry of a key standing for the key, and the comparison holds  *)
(* one entry per key of the union, in ascending key order.                 *)
(***************************************************************************)
Commands == {"show_arp_no_resolve", "show_vrrp_summary"}

\* the comparison fields of a command
FieldsOf(name) ==
    IF name = "show_arp_no_resolve"
    THEN {"ip_address", "mac_address", "interface", "flags"}
    ELSE {"interface", "state", "group", "vr_state", "vr_mode", "addresses"}

KeyLessOf(name, a, b) ==
    IF name = "show_arp_no_resolve" THEN ArpKeyLess(a, b) ELSE VrrpKeyLess(a, b)

\* the entry that stands for key k in entries
LastWith(name, entries, k) ==
    entries[CHOOSE i \in 1..Len(entries) :
                /\ KeyOf(name, entries[i]) = k
                /\ \A j \in (i + 1)..Len(entries) : KeyOf(name, entries[j]) # k]

PreKeys(name) == KeysOf(name, pre_data[name].entries)
PostKeys(name) == KeysOf(name, post_data[name].entries)

\* the comparison entry of key k
EntryFor(name, k) ==
    EntriesOf(name)[1 + Cardinality({m \in PreKeys(name) \cup PostKeys(name) :
                                        KeyLessOf(name, m, k)})]

\* every comparison field of a comparison entry carries the tag
AllFields(name, entry, tag) ==
    \A f \in FieldsOf(name) : JGet(entry, f).str = tag

\* key k is on both sides with the same field values
SameOnBothSides(name, k) ==
    /\ k \in PreKeys(name) \cap PostKeys(name)
    /\ LastWith(name, pre_data[name].entries, k)
          = LastWith(name, post_data[name].entries, k)

\* the command was compared
Compared(name) == pc \in {"export", "done"} /\ JHas(comparison, name)

\* the Verdict of the command in the status column
Verdict(name) ==
    result.value[CHOOSE i \in 1..Len(result.value) :
                    result.value[i].key = name].value

(***************************************************************************)
(* C9.  Diff presence rule.  For every key of the union of the keys of the *)
(* two entry lists: a key only in pre gives status 'deleted' and every     *)
(* field mismatch; a key only in post gives status 'added' and every field *)
(* mismatch; a key on both sides with identical field values gives every   *)
(* field match and no status; and when every key is of the last kind and   *)
(* the totals are equal the Verdict of the command is match.               *)
(***************************************************************************)
C9_PresenceRule ==
    \A name \in Commands :
        Compared(name) =>
            /\ Len(EntriesOf(name)) = Cardinality(PreKeys(name) \cup PostKeys(name))
            /\ \A k \in PreKeys(name) \ PostKeys(name) :
                  /\ JHas(EntryFor(name, k), "status")
                  /\ JGet(EntryFor(name, k), "status").str = "deleted"
                  /\ AllFields(name, EntryFor(name, k), "red")
            /\ \A k \in PostKeys(name) \ PreKeys(name) :
                  /\ JHas(EntryFor(name, k), "status")
                  /\ JGet(EntryFor(name, k), "status").str = "added"
                  /\ AllFields(name, EntryFor(name, k), "red")
            /\ \A k \in PreKeys(name) \cap PostKeys(name) :
                  SameOnBothSides(name, k)
                  => /\ ~JHas(EntryFor(name, k), "status")
                     /\ AllFields(name, EntryFor(name, k), "green")
            /\ (/\ pc = "done"
                /\ \A k \in PreKeys(name) \cup PostKeys(name) :
                      SameOnBothSides(name, k)
                /\ name = "show_arp_no_resolve"
                      => pre_data[name].total_entries = post_data[name].total_entries)
               => Verdict(name) = "MATCH"

\* the ARP table lost 10.0.0.2 and kept 10.0.0.1 as it was: the first
\* comparison entry is all match without status, the second is 'deleted'
C9_Witness ==
    /\ pc = "done"
    /\ DOMAIN pre_data = {"show_arp_no_resolve"}
    /\ pre_data["show_arp_no_resolve"].entries = <<ArpBase1, ArpBase2>>
    /\ post_data["show_arp_no_resolve"].entries = <<ArpBase1>>
    /\ ~JHas(EntriesOf("show_arp_no_resolve")[1], "status")
    /\ JGet(EntriesOf("show_arp_no_resolve")[2], "status").str = "deleted"
    /\ Verdict("show_arp_no_resolve") = "CHANGED"

(***************************************************************************)
(* C10.  For every key present in both pre and post, each comparison field *)
(* is tagged mismatch exactly when the pre and post values of that field   *)
(* differ, and match otherwise: the fields are judged independently.       *)
(***************************************************************************)
C10_FieldByField ==
    \A name \in Commands :
        Compared(name) =>
            \A k \in PreKeys(name) \cap PostKeys(name) :
                \A f \in FieldsOf(name) :
                    JGet(EntryFor(name, k), f).str =
                        IF LastWith(name, pre_data[name].entries, k)[f]
                              = LastWith(name, post_data[name].entries, k)[f]
                        THEN "green" ELSE "red"

\* ARP key 10.0.0.1 with only the MAC changed: mac_address is mismatch,
\* the other three fields are match
C10_Witness ==
    /\ Compared("show_arp_no_resolve")
    /\ pre_data["show_arp_no_resolve"].entries = <<ArpBase1>>
    /\ post_data["show_arp_no_resolve"].entries
          = <<[ArpBase1 EXCEPT !.mac_address = "aa:02"]>>
    /\ JGet(EntriesOf("show_arp_no_resolve")[1], "mac_address").str = "red"
    /\ \A f \in {"ip_address", "interface", "flags"} :
          JGet(EntriesOf("show_arp_no_resolve")[1], f).str = "green"

(***************************************************************************)
(* Comparison structures for the rollup: dicts and lists nested to a depth *)
(* of MaxDepth, with colour and status strings as leaves, held as the      *)
(* comparison of one command when export_to_excel works out its status.    *)
(***************************************************************************)
MaxDepth == 3       \* containers around a leaf, the dict of the command included

LeafStrings == {"red", "green", "added"}

\* a list or a dict holding t, alone or with one string beside it
Wraps(t) ==
    LET one == {<<t>>}
        two == {<<JStr(w), t>> : w \in LeafStrings}
        asDict(values) ==
            JDict([i \in 1..Len(values) |->
                      KV(IF i = 1 THEN "entries" ELSE "status", values[i])])
    IN  {JList(values) : values \in one \cup two}
        \cup {asDict(values) : values \in one \cup two}

RECURSIVE Trees(_)
Trees(d) ==
    IF d = 0
    THEN {JStr(w) : w \in LeafStrings} \cup {JList(<<>>), JDict(<<>>)}
    ELSE Trees(d - 1) \cup UNION {Wraps(t) : t \in Trees(d - 1)}

InitRollup ==
    /\ terminal_output = <<>>
    /\ extractor = 0
    /\ segment = None
    /\ NoParse
    /\ pre_file = <<>> /\ post_file = <<>>
    /\ pre_data = OnlyArp(ArpData(<<>>, 0))
    /\ post_data = OnlyArp(ArpData(<<>>, 0))
    /\ \E t \in Trees(MaxDepth) :
          /\ t.kind = "dict"
          /\ comparison = JDict(<<KV("show_arp_no_resolve", t)>>)
    /\ pc = "export"

NextRollup == ExportToExcel

SpecRollup == InitRollup /\ [][NextRollup]_vars

(***************************************************************************)
(* C11.  The Verdict of a command is mismatch (CHANGED) if and only if a   *)
(* leaf of its comparison structure, at any depth of dicts and lists, is   *)
(* mismatch ("red"); otherwise it is match.  A status tag ('added') alone  *)
(* does not change the Verdict.                                            *)
(***************************************************************************)
RECURSIVE LeavesOf(_)
LeavesOf(t) ==
    IF t.kind = "str" THEN {t.str}
    ELSE UNION {LeavesOf(IF t.kind = "dict" THEN t.items[i].value ELSE t.items[i]) :
                   i \in 1..Len(t.items)}

C11_VerdictIffSomeLeafMismatch ==
    (pc = "done" /\ JHas(comparison, "show_arp_no_resolve"))
    => (Verdict("show_arp_no_resolve") = "CHANGED"
           <=> "red" \in LeavesOf(JGet(comparison, "show_arp_no_resolve")))

\* a mismatch two containers down is found, and a structure whose only
\* leaves are status tags and matches is a match
C11_Witness ==
    /\ pc = "done"
    /\ comparison = JDict(<<KV("show_arp_no_resolve",
            JDict(<<KV("entries", JList(<<JStr("added"),
                        JDict(<<KV("entries", JStr("red"))>>)>>))>>))>>)
    /\ Verdict("show_arp_no_resolve") = "CHANGED"

(***************************************************************************)
(* C12.  The comparison of a command holds exactly one entry per distinct  *)
(* key of the union of the pre and post keys, in ascending key order       *)
(* whatever the order of the entries in the two lists: the entry at the    *)
(* rank of a key is the one that key calls for (its status by the side     *)
(* that holds it, its field tags by the values under that key).            *)
(***************************************************************************)
\* the status key k calls for, "" for none
StatusFor(name, k) ==
    IF k \notin PostKeys(name) THEN "deleted"
    ELSE IF k \notin PreKeys(name) THEN "added" ELSE ""

\* the tag field f of key k calls for
TagFor(name, k, f) ==
    IF k \in PreKeys(name) \cap PostKeys(name)
          /\ LastWith(name, pre_data[name].entries, k)[f]
                = LastWith(name, post_data[name].entries, k)[f]
    THEN "green" ELSE "red"

\* the i-th comparison entry is the one key k calls for
IsEntryOf(name, i, k) ==
    LET e == EntriesOf(name)[i]
    IN  /\ JHas(e, "status") <=> StatusFor(name, k) # ""
        /\ JHas(e, "status") => JGet(e, "status").str = StatusFor(name, k)
        /\ \A f \in FieldsOf(name) : JGet(e, f).str = TagFor(name, k, f)

C12_OneEntryPerKeyAscending ==
    \A name \in Commands :
        Compared(name) =>
            LET keys == PreKeys(name) \cup PostKeys(name)
            IN  /\ Len(EntriesOf(name)) = Cardinality(keys)
                /\ \A k \in keys :
                      IsEntryOf(name,
                                1 + Cardinality({m \in keys : KeyLessOf(name, m, k)}),
                                k)

\* pre lists 10.0.0.2 before 10.0.0.1 and post holds 10.0.0.1 alone: the
\* entry of 10.0.0.1 comes first, the 'deleted' entry of 10.0.0.2 second
C12_Witness ==
    /\ Compared("show_arp_no_resolve")
    /\ pre_data["show_arp_no_resolve"].entries = <<ArpBase2, ArpBase1>>
    /\ post_data["show_arp_no_resolve"].entries = <<ArpBase1>>
    /\ Len(EntriesOf("show_arp_no_resolve")) = 2
    /\ IsEntryOf("show_arp_no_resolve", 1, "10.0.0.1")
    /\ IsEntryOf("show_arp_no_resolve", 2, "10.0.0.2")

(***************************************************************************)
(* C13.  When a side holds several entries under one diff key, the diff    *)
(* does not raise and does not flag it: the comparison has one entry for   *)
(* the key, with the comparison fields and at most a status and nothing    *)
(* else, and on a key held by both sides each field is tagged by the       *)
(* values of the last entry of the key on each side; earlier entries of    *)
(* the key count for nothing.                                              *)
(***************************************************************************)
\* the keys that several entries of the list carry
Repeated(name, entries) ==
    {k \in KeysOf(name, entries) :
        Cardinality({i \in 1..Len(entries) : KeyOf(name, entries[i]) = k}) > 1}

\* the keys of a JSON dict
JKeys(d) == {d.items[i].key : i \in 1..Len(d.items)}

C13_LastDuplicateWins ==
    \A name \in Commands :
        LET repeated == Repeated(name, pre_data[name].entries)
                            \cup Repeated(name, post_data[name].entries)
        IN  (name \in DOMAIN pre_data /\ name \in DOMAIN post_data
                /\ repeated # {} /\ pc # "compare")
            => /\ pc # "raised"
               /\ Compared(name)
               /\ Len(EntriesOf(name))
                     = Cardinality(PreKeys(name) \cup PostKeys(name))
               /\ \A k \in repeated :
                     /\ JKeys(EntryFor(name, k)) \subseteq FieldsOf(name) \cup {"status"}
                     /\ k \in PreKeys(name) \cap PostKeys(name)
                           => /\ ~JHas(EntryFor(name, k), "status")
                              /\ \A f \in FieldsOf(name) :
                                    JGet(EntryFor(name, k), f).str
                                        = TagFor(name, k, f)

\* pre holds 10.0.0.1 twice, with MAC aa:01 and then aa:02, and post holds
\* it with aa:02: the last one is compared and mac_address is a match
C13_Witness ==
    /\ Compared("show_arp_no_resolve")
    /\ pre_data["show_arp_no_resolve"].entries
          = <<ArpBase1, [ArpBase1 EXCEPT !.mac_address = "aa:02"]>>
    /\ post_data["show_arp_no_resolve"].entries
          = <<[ArpBase1 EXCEPT !.mac_address = "aa:02"]>>
    /\ Len(EntriesOf("show_arp_no_resolve")) = 1
    /\ JGet(EntriesOf("show_arp_no_resolve")[1], "mac_address").str = "green"

(***************************************************************************)
(* C14.  In the VRRP diff, for a key (interface, group) on both sides, the *)
(* 'addresses' field is compared as one whole list: it is one tag, which   *)
(* is mismatch whenever the two lists differ in length, in order or in an  *)
(* element, also when some address is the same on both sides, and match    *)
(* when they are the same list; the entry holds no status per address.     *)
(***************************************************************************)
\* the two lists differ in length or at some position
ListsDiffer(a, b) ==
    \/ Len(a) # Len(b)
    \/ \E i \in 1..Len(a) : a[i] # b[i]

C14_AddressesComparedWhole ==
    Compared("show_vrrp_summary") =>
        \A k \in PreKeys("show_vrrp_summary") \cap PostKeys("show_vrrp_summary") :
            LET e == EntryFor("show_vrrp_summary", k)
                pre_entry == LastWith("show_vrrp_summary",
                                      pre_data["show_vrrp_summary"].entries, k)
                post_entry == LastWith("show_vrrp_summary",
                                       post_data["show_vrrp_summary"].entries, k)
            IN  /\ JKeys(e) = FieldsOf("show_vrrp_summary")
                /\ JGet(e, "addresses").kind = "str"
                /\ JGet(e, "addresses").str
                      = IF ListsDiffer(pre_entry.addresses, post_entry.addresses)
                        THEN "red" ELSE "green"

\* the same two addresses in the other order: addresses is a mismatch
C14_Witness ==
    /\ Compared("show_vrrp_summary")
    /\ Len(pre_data["show_vrrp_summary"].entries) = 1
    /\ Len(post_data["show_vrrp_summary"].entries) = 1
    /\ pre_data["show_vrrp_summary"].entries[1].addresses
          = <<[type |-> "lcl", address |-> "10.0.0.1"],
              [type |-> "vip", address |-> "10.0.0.9"]>>
    /\ post_data["show_vrrp_summary"].entries[1].addresses
          = <<[type |-> "vip", address |-> "10.0.0.9"],
              [type |-> "lcl", address |-> "10.0.0.1"]>>
    /\ JGet(EntriesOf("show_vrrp_summary")[1], "addresses").str = "red"
    /\ JGet(EntriesOf("show_vrrp_summary")[1], "interface").str = "green"

(***************************************************************************)
(* Segments with lines of text, for the parsers.  A segment is what the    *)
(* extractor of a command returned: up to MaxLines lines of the forms the  *)
(* command prints, joined and stripped; the main program hands it to the   *)
(* parser of the same command.                                             *)
(***************************************************************************)
MaxLines == 4       \* lines in a segment

\* a line that fits no pattern of any parser
Garbage == <<"garbage">>

\* show rsvp session: section headers, the column header, two entries and
\* two summary lines
RsvpIngress == <<"Ingress", SP, "RSVP:", SP, "2", SP, "sessions">>
RsvpEgress == <<"Egress", SP, "RSVP:", SP, "1", SP, "sessions">>
RsvpColumns ==
    <<"To", SP, "From", SP, "State", SP, "Rt", SP, "Style", SP, "Labelin", SP,
      "Labelout", SP, "LSPname">>
RsvpS1 ==
    <<"10.0.0.1", SP, "10.0.0.2", SP, "Up", SP, "0", SP, "1", SP, "FF", SP,
      "-", SP, "3", SP, "lsp1">>
RsvpS2 ==
    <<"10.0.0.2", SP, "10.0.0.1", SP, "Dn", SP, "0", SP, "1", SP, "FF", SP,
      "3", SP, "-", SP, "lsp2">>
RsvpTotal ==
    <<"Total", SP, "2", SP, "displayed,", SP, "Up", SP, "2,", SP, "Down", SP, "0">>
RsvpTotal3 ==
    <<"Total", SP, "3", SP, "displayed,", SP, "Up", SP, "2,", SP, "Down", SP, "1">>

\* show mpls lsp p2mp: section headers, group headers, the column header, an
\* entry and a summary line
P2mpIngress == <<"Ingress", SP, "LSP:", SP, "2", SP, "sessions">>
P2mpEgress == <<"Egress", SP, "LSP:", SP, "1", SP, "sessions">>
P2mpGroup1 ==
    <<"P2MP", SP, "name:", SP, "g1,", SP, "P2MP", SP, "branch", SP, "count:", SP, "1">>
P2mpGroup2 ==
    <<"P2MP", SP, "name:", SP, "g2", SP, "g1,", SP, "P2MP", SP, "branch", SP,
      "count:", SP, "2">>
P2mpColumns ==
    <<"To", SP, "From", SP, "State", SP, "Rt", SP, "P", SP, "ActivePath", SP,
      "LSPname">>

\* show route table: the header of a table, two routes, a next hop, a local
\* next hop and a legend line
RouteHeader(table) ==
    <<table, SP, "2", SP, "destinations,", SP, "3", SP, "routes", SP, "(1", SP,
      "active,", SP, "0", SP, "holddown,", SP, "2", SP, "hidden)">>
RouteR1 ==
    <<"10.0.0.1", SP, SP, "*[Static/5]", SP, "1d,", SP, "metric", SP, "0">>
RouteR2 ==
    <<"10.0.0.2", SP, "*[RSVP/7/1]", SP, "1d", SP, "05:55:40,", SP, "metric", SP, "1">>
RouteHop == <<SP, SP, ">", SP, SP, "to", SP, "10.0.0.9", SP, "via", SP, "ge-0">>
RouteLocal == <<SP, SP, "Local", SP, "via", SP, "ge-0">>
RouteLegend == <<"+", SP, "=", SP, "Active">>
RouteDiscard == <<SP, SP, "Discard">>
RouteToTable == <<SP, SP, "to", SP, "table", SP, "inet.0">>
RouteVia == <<SP, SP, "via", SP, "lsi.0,", SP, "Pop">>

\* show bgp summary: the lines before the tables, the header of the tables,
\* a line of table statistics and one with a word that is not a number, the
\* header of the peers, two peers and a RIB line
BgpThreading == <<"Threading", SP, "mode:", SP, "BGP", SP, "I/O">>
BgpGroups ==
    <<"Groups:", SP, "1", SP, "Peers:", SP, "2", SP, "Down", SP, "peers:", SP, "0">>
BgpTables ==
    <<"Table", SP, "Tot", SP, "Paths", SP, "Act", SP, "Paths", SP, "Suppressed">>
BgpStats == <<SP, "3", SP, "2", SP, "0", SP, "0", SP, "0", SP, "0">>
BgpStatsBad == <<SP, "3", SP, "2", SP, "x", SP, "0", SP, "0", SP, "0">>
BgpPeers == <<"Peer", SP, "AS", SP, "InPkt", SP, "OutPkt">>
BgpPeer1 ==
    <<"10.0.0.1", SP, "1", SP, "2", SP, "3", SP, "0", SP, "1", SP, "1d", SP,
      "Establ">>
BgpPeer2 ==
    <<"10.0.0.2", SP, "2", SP, "1", SP, "1", SP, "0", SP, "0", SP, "1d", SP,
      "1/4/4/0", SP, "Active">>
BgpRib == <<SP, SP, "inet.0:", SP, "1/4/4/0">>

\* show bgp neighbor: two peers, lines about the peer, a table and lines
\* about the table
NbrPeer1 ==
    <<"Peer:", SP, "10.0.0.1", SP, "AS", SP, "1", SP, "Local:", SP, "10.0.0.9", SP,
      "AS", SP, "2">>
NbrPeer2 ==
    <<"Peer:", SP, "10.0.0.2", SP, "AS", SP, "3", SP, "Local:", SP, "10.0.0.9", SP,
      "AS", SP, "2">>
NbrDescription == <<SP, SP, "Description:", SP, "lsp1", SP, SP, "lsp2">>
NbrGroup == <<SP, SP, "Group:", SP, "g1", SP, "Routing-Instance:", SP, "master">>
NbrType == <<SP, SP, "Type:", SP, "Internal", SP, SP, "State:", SP, "Establ">>
NbrLocal ==
    <<SP, SP, "Local", SP, "Address:", SP, "10.0.0.9", SP, "Holdtime:", SP, "3">>
NbrFlaps == <<SP, SP, "Number", SP, "of", SP, "flaps:", SP, "2">>
NbrTable == <<SP, SP, "Table", SP, "inet.0", SP, "Bit:", SP, "2">>
NbrActive == <<SP, SP, SP, SP, "Active", SP, "prefixes:", SP, SP, "1">>
NbrReceived == <<SP, SP, SP, SP, "Received", SP, "prefixes:", SP, "3">>

\* show isis adjacency extensive: two system names, the lines about an
\* adjacency, the transition log with its header and an entry, and an
\* indented line that fits no pattern
IsisSys1 == <<"r1">>
IsisSys2 == <<"r2">>
IsisInterface ==
    <<SP, SP, "Interface:", SP, "ge-0,", SP, "Level:", SP, "2,", SP, "State:", SP,
      "Up,", SP, "Expires", SP, "in", SP, "3", SP, SP, "secs">>
IsisPriority ==
    <<SP, SP, "Priority:", SP, "0,", SP, "Up/Down", SP, "transitions:", SP, "1,", SP,
      "Last", SP, "transition:", SP, "1d", SP, "ago">>
IsisIp == <<SP, SP, "IP", SP, "addresses:", SP, "10.0.0.1", SP, "10.0.0.2">>
IsisAdjSid == <<SP, SP, "Level", SP, "2", SP, "Adj-SID:", SP, "3,", SP, "Flags:", SP, "--VL--">>
IsisLog == <<SP, SP, "Transition", SP, "log:">>
IsisWhen == <<SP, SP, "When", SP, "State", SP, "Event", SP, "Down", SP, "reason">>
IsisTransition ==
    <<SP, SP, "Tue", SP, "1", SP, "1d", SP, "Up", SP, "Seenself", SP, "no", SP, SP, "reason">>
Indented == <<SP, SP, "garbage">>

\* show route summary: the lines before the tables, the headers of two
\* tables (RouteHeader) and two protocol lines
SumAs == <<"Autonomous", SP, "system", SP, "number:", SP, "1">>
SumRouter == <<"Router", SP, "ID:", SP, "10.0.0.1">>
SumRouterWide == <<"Router", SP, SP, "ID:", SP, "10.0.0.1">>
SumDirect == <<SP, SP, "Direct:", SP, SP, "2", SP, "routes,", SP, "1", SP, "active">>
SumStatic == <<SP, SP, "Static:", SP, SP, "1", SP, "route,", SP, SP, "0", SP, "active">>

\* show lldp neighbors: the column header, two neighbors (the second with a
\* chassis id in capitals and a system name of two words) and a line whose
\* third word is no chassis id
LldpColumns == <<"Local", SP, "Interface", SP, "Parent", SP, "Interface">>
LldpN1 == <<"ge-0", SP, "-", SP, "aa:01", SP, "ge-1", SP, "r1">>
LldpN2 == <<"ge-1", SP, SP, "-", SP, "AA:02", SP, "ge-0", SP, "r2", SP, SP, "lsp1">>
LldpBad == <<"ge-0", SP, "-", SP, "zz", SP, "ge-1", SP, "r1">>

\* show bfd session: the column header, a session, a line too short for a
\* session, the summary, a line with a session and a summary, the rates
BfdColumns == <<"Address", SP, "State", SP, "Interface">>
BfdS1 == <<"10.0.0.1", SP, "Up", SP, "ge-0", SP, SP, "0.3", SP, "0.1", SP, "3">>
BfdShort == <<"10.0.0.2", SP, "Up", SP, "ge-1">>
BfdSummary == <<"2", SP, "sessions,", SP, "1", SP, "clients">>
BfdBoth ==
    <<"10.0.0.2", SP, "Up", SP, "ge-1", SP, "0.3", SP, "0.1", SP, "lsp1", SP,
      "session,", SP, "3", SP, "client">>
BfdRate ==
    <<"Cumulative", SP, "transmit", SP, "rate", SP, "20.0", SP, "pps,", SP,
      "cumulative", SP, "receive", SP, "rate", SP, SP, "0.1", SP, SP, "pps">>

\* show rsvp neighbor: the header with a count and with 0, the column
\* header, two neighbors (the second with no LastChange) and a line of six
\* words with one blank between them
NeiHeader == <<"RSVP", SP, "neighbor:", SP, "3", SP, "learned">>
NeiHeader0 == <<"RSVP", SP, "neighbor:", SP, "0", SP, "learned">>
NeiColumns == <<"Address", SP, "Idle", SP, "Up/Dn">>
NeiN1 ==
    <<"10.0.0.1", SP, SP, "0", SP, "1/0", SP, "1d", SP, SP, "ago", SP, "3", SP,
      "1/1", SP, "2">>
NeiN2 == <<"10.0.0.2", SP, "1", SP, "1/1", SP, SP, SP, "3", SP, "1/0", SP, "0">>
NeiBad == <<"10.0.0.9", SP, "1", SP, "1/1", SP, "3", SP, "1/0", SP, "0">>

\* show mpls interface: the column header, two interfaces and a line too
\* short for an interface
MplsIfColumns == <<"Interface", SP, "State", SP, "Administrative", SP, "groups">>
MplsIf1 == <<"ge-0", SP, "Up", SP, "g1">>
MplsIf2 == <<"ge-1", SP, SP, "Dn", SP, "g1", SP, SP, "g2">>
MplsIfShort == <<"ge-0", SP, "Up">>

\* show mpls lsp: the section headers and the column header of the P2MP
\* output, an entry of the ingress section with and without an active path,
\* the nine words of RsvpS1 and a summary line
LspIn1 ==
    <<"10.0.0.1", SP, "10.0.0.2", SP, "Up", SP, "0", SP, "*", SP, "p1", SP, "lsp1">>
LspIn2 ==
    <<"10.0.0.2", SP, "10.0.0.1", SP, "Dn", SP, "0", SP, "*", SP, SP, "lsp2">>

\* the forms of line in the output of command n
LineKinds(n) ==
    CASE n = 2 -> {VrrpHeader, VrrpV1, VrrpV2, VrrpCont, Garbage}
      [] n = 3 -> {LldpColumns, LldpN1, LldpN2, LldpBad, Garbage}
      [] n = 4 -> {BfdColumns, BfdS1, BfdShort, BfdSummary, BfdBoth, BfdRate, Garbage}
      [] n = 5 -> {NeiHeader, NeiHeader0, NeiColumns, NeiN1, NeiN2, NeiBad, Garbage}
      [] n = 6 -> {RsvpIngress, RsvpEgress, RsvpColumns, RsvpS1, RsvpS2,
                   RsvpTotal, RsvpTotal3, Garbage}
      [] n = 10 -> {MplsIfColumns, MplsIf1, MplsIf2, MplsIfShort, Garbage}
      [] n = 11 -> {P2mpIngress, P2mpEgress, P2mpColumns, LspIn1, LspIn2, RsvpS1,
                    RsvpTotal, Garbage}
      [] n = 7 -> {RouteHeader("inet.0:"), RouteR1, RouteR2, RouteHop, RouteLocal,
                   RouteLegend, Garbage}
      [] n = 8 -> {RouteHeader("inet.3:"), RouteR1, RouteR2, RouteHop, RouteDiscard,
                   RouteLegend, Garbage}
      [] n = 9 -> {RouteHeader("mpls.0:"), RouteR1, RouteR2, RouteHop, RouteDiscard,
                   RouteToTable, RouteVia, Garbage}
      [] n = 13 -> {BgpThreading, BgpGroups, BgpTables, BgpStats, BgpStatsBad,
                    BgpPeers, BgpPeer1, BgpPeer2, BgpRib, Garbage}
      [] n = 14 -> {NbrPeer1, NbrPeer2, NbrDescription, NbrGroup, NbrType, NbrLocal,
                    NbrFlaps, NbrTable, NbrActive, NbrReceived, Garbage}
      [] n = 15 -> {IsisSys1, IsisSys2, IsisInterface, IsisPriority, IsisIp, IsisAdjSid,
                    IsisLog, IsisWhen, IsisTransition, Indented}
      [] n = 16 -> {SumAs, SumRouter, SumRouterWide, RouteHeader("inet.0:"),
                    RouteHeader("inet.3:"),
                    SumDirect, SumStatic, Garbage}
      [] n = 12 -> {P2mpIngress, P2mpEgress, P2mpGroup1, P2mpGroup2, P2mpColumns,
                    RsvpS1, RsvpTotal, Garbage}

LineParsers == {2, 3, 4, 5, 6, 7, 8, 9, 10, 11, 12, 13, 14, 15, 16}

LineSegments(n) ==
    {Some(Strip(JoinLines(ls))) :
        ls \in UNION {[1..m -> LineKinds(n)] : m \in 0..MaxLines}}

\* the parser of command n on the segment of command n; Genie, asked
\* first by the ARP parser alone, raises or returns a dict
ParseSegment(n) ==
    /\ extractor = n
    /\ parser = 0
    /\ parser' = n
    /\ \E g \in (IF n = 1 THEN GenieOutcomes(segment) ELSE {genie_outcome}) :
          genie_outcome' = g /\ result' = Parse(n, segment, g)
    /\ UNCHANGED <<segVars, diffVars, callVars>>

NextLines == \E n \in LineParsers : ParseSegment(n)

InitLines ==
    /\ terminal_output = <<>>
    /\ \E n \in LineParsers : extractor = n /\ segment \in LineSegments(n)
    /\ NoParse /\ NoDiff

SpecLines == InitLines /\ [][NextLines]_vars

\* the same for the RSVP session parser alone
InitRsvpSession ==
    /\ terminal_output = <<>>
    /\ extractor = 6 /\ segment \in LineSegments(6)
    /\ NoParse /\ NoDiff

NextRsvpSession == ParseSegment(6)

SpecRsvpSession == InitRsvpSession /\ [][NextRsvpSession]_vars

\* the lines of the segment, as printed
SegmentLines == SplitLines(segment.text)

\* the parser of command n has been called on the segment of command n
Parsed(n) == extractor = n /\ parser = n

\* the outcome of the primary attempt: Genie's parser, then the conversion
\* of the dict it returned
PrimaryAttempt ==
    IF genie_outcome.raised THEN genie_outcome
    ELSE _convert_genie_show_arp_no_resolve(genie_outcome.value)

(***************************************************************************)
(* C15.  In the VRRP summary, an indented line with one more (type,        *)
(* address) pair that follows a primary line is appended to the addresses  *)
(* of the entry of that line: a primary line with 'lcl <addr>' followed by *)
(* a line 'vip <addr>' gives an entry with the two addresses, in that      *)
(* order.                                                                  *)
(***************************************************************************)
\* a line of the table with an interface, and an indented line with a type
\* and an address
IsVrrpPrimary(line) ==
    /\ Len(line) > 0 /\ ~IsWs(line[1]) /\ line[1] # "Interface"
    /\ Len(Words(line)) >= 7 /\ IsNumber(Words(line)[3])

IsVrrpContinuation(line) ==
    Len(line) > 0 /\ line[1] = SP /\ Len(Words(line)) = 2

C15_ContinuationLineAppended ==
    Parsed(2) =>
        /\ ~result.raised
        /\ \A i \in 1..(Len(SegmentLines) - 1) :
              (IsVrrpPrimary(SegmentLines[i])
                  /\ IsVrrpContinuation(SegmentLines[i + 1]))
              => LET k == Cardinality({j \in 1..i : IsVrrpPrimary(SegmentLines[j])})
                     entry == result.value.entries[k]
                 IN  /\ Len(entry.addresses) >= 2
                     /\ entry.addresses[1]
                           = [type |-> Words(SegmentLines[i])[6],
                              address |-> Words(SegmentLines[i])[7]]
                     /\ entry.addresses[2]
                           = [type |-> Words(SegmentLines[i + 1])[1],
                              address |-> Words(SegmentLines[i + 1])[2]]

(***************************************************************************)
(* C18.  In the RSVP session parser a section header '<Direction> RSVP: N  *)
(* sessions' sets the total_sessions of the Section to N and a summary     *)
(* line 'Total D displayed, Up U, Down W' sets total_displayed, total_up   *)
(* and total_down to D, U and W; neither line makes a Record, and the      *)
(* totals are stored as read, whatever the number of entry lines parsed.   *)
(* A Section is the one its last header opened, and its lines run to the   *)
(* next header.                                                            *)
(***************************************************************************)
IsSectionHeader(line, proto, kind) ==
    Len(Words(line)) = 4 /\ Words(line)[1] = kind /\ Words(line)[2] = proto

IsRsvpSummary(line) == Len(Words(line)) = 7 /\ Words(line)[1] = "Total"

IsRsvpEntry(line) == Len(Words(line)) >= 8 /\ Words(line)[1] # "To"

\* the lines of the Section of a direction: those after its last header and
\* before the next header
SectionLines(proto, kind) ==
    LET headers == {i \in 1..Len(SegmentLines) :
                       IsSectionHeader(SegmentLines[i], proto, kind)}
        h == CHOOSE i \in headers : \A j \in headers : j <= i
        later == {i \in (h + 1)..Len(SegmentLines) :
                     \E k \in {"Ingress", "Egress", "Transit"} :
                         IsSectionHeader(SegmentLines[i], proto, k)}
        end == IF later = {} THEN Len(SegmentLines) + 1
               ELSE CHOOSE i \in later : \A j \in later : i <= j
    IN  IF headers = {} THEN <<>> ELSE SubSeq(SegmentLines, h, end - 1)

\* the three numbers of the last summary line among the lines, 0 without
NumbersOfLast(lines) ==
    LET sums == {i \in 1..Len(lines) : IsRsvpSummary(lines[i])}
        last == Words(lines[CHOOSE i \in sums : \A j \in sums : j <= i])
    IN  IF sums = {} THEN <<0, 0, 0>>
        ELSE <<ToInt(last[2]), ToInt(Digits(last[5])), ToInt(DigitsAtStart(last[7]))>>

C18_TotalsStoredAsRead ==
    Parsed(6) =>
        /\ ~result.raised
        /\ \A kind \in {"Ingress", "Egress"} :
              LET lines == SectionLines("RSVP:", kind)
                  section == result.value[Lower(kind)]
              IN  IF lines = <<>> THEN section = None
                  ELSE /\ section.some
                       /\ section.text.total_sessions = ToInt(Words(lines[1])[3])
                       /\ <<section.text.total_displayed, section.text.total_up,
                             section.text.total_down>> = NumbersOfLast(lines)
                       /\ Len(section.text.entries)
                             = Cardinality({i \in 1..Len(lines) :
                                               IsRsvpEntry(lines[i])})

\* header 2, two entry lines, 'Total 2 displayed, Up 2, Down 0': totals
\* 2/2/2/0 and two Records; and the same header and summary with one entry
\* line behind them
C18_Witness ==
    /\ Parsed(6)
    /\ SegmentLines = <<RsvpIngress, RsvpS1, RsvpS2, RsvpTotal>>
    /\ result.value.ingress.text.total_sessions = 2
    /\ result.value.ingress.text.total_displayed = 2
    /\ result.value.ingress.text.total_up = 2
    /\ result.value.ingress.text.total_down = 0
    /\ Len(result.value.ingress.text.entries) = 2

(***************************************************************************)
(* C17.  In the P2MP parser every Group that a group header line opens     *)
(* ends up in the groups of its Section, whether the Group is ended by the *)
(* next group header, by the next section header, by the summary line or   *)
(* by the end of the input: the groups of a Section are the group headers  *)
(* among its lines, in their order.                                        *)
(***************************************************************************)
IsGroupHeader(line) ==
    LET w == Words(line)
    IN  /\ Len(w) >= 7
        /\ SubSeq(w, 1, 2) = <<"P2MP", "name:">>
        /\ EndsWithComma(w[Len(w) - 4])
        /\ SubSeq(w, Len(w) - 3, Len(w) - 1) = <<"P2MP", "branch", "count:">>

\* the name on a group header line: the text between 'P2MP name:' and the
\* comma before 'P2MP branch count:'
HeaderName(line) ==
    LET comma == WordAt(line, Len(Words(line)) - 4)
    IN  SubSeq(line, WordAt(line, 3), comma - 1) \o <<BeforeComma(line[comma])>>

RECURSIVE GroupNames(_)
GroupNames(lines) ==
    IF Len(lines) = 0 THEN <<>>
    ELSE (IF IsGroupHeader(Head(lines))
          THEN <<HeaderName(Head(lines))>> ELSE <<>>)
         \o GroupNames(Tail(lines))

C17_EveryGroupReachesItsSection ==
    Parsed(12) =>
        /\ ~result.raised
        /\ \A kind \in {"Ingress", "Egress"} :
              LET lines == SectionLines("LSP:", kind)
                  section == result.value[Lower(kind)]
              IN  lines # <<>> =>
                    /\ section.some
                    /\ [i \in 1..Len(section.text.groups) |->
                            section.text.groups[i].p2mp_name] = GroupNames(lines)

(***************************************************************************)
(* C16.  For every parser that keeps an open record (VRRP, inet.0, inet.3, *)
(* mpls.0, BGP summary peers, BGP neighbor, ISIS adjacency, route summary  *)
(* tables) and every sequence of lines, the result holds exactly one       *)
(* Record per primary line, in input order, none lost and none duplicated: *)
(* each primary line closes the record in progress and opens a new one,    *)
(* and the record still open at the end of the input is flushed.           *)
(***************************************************************************)
RecordParsers == {2, 7, 8, 9, 13, 14, 15, 16}

\* line i of the BGP summary is in the table section: after a header of the
\* tables with no header of the peers since
InBgpTables(i) ==
    \E j \in 1..(i - 1) :
        /\ Words(SegmentLines[j])[1] = "Table"
        /\ \A k \in (j + 1)..(i - 1) :
              Len(Words(SegmentLines[k])) = 0 \/ Words(SegmentLines[k])[1] # "Peer"

\* line i of the segment of command n is a primary line
IsPrimaryLine(n, i) ==
    LET line == SegmentLines[i]
        w == Words(line)
    IN  CASE n = 2 -> IsVrrpPrimary(Strip(line))
          [] n \in {7, 8, 9} ->
                Len(w) >= 5 /\ w[2] \in {"*[Static/5]", "*[RSVP/7/1]", "*[Direct]"}
          [] n = 13 -> Len(w) >= 8 /\ IsIpWord(w[1]) /\ ~InBgpTables(i)
          [] n = 14 -> Len(w) >= 8 /\ w[1] = "Peer:"
          [] n = 15 -> Len(line) > 0 /\ ~IsWs(line[1]) /\ ~InLine(":", line)
          [] n = 16 -> Len(w) >= 11 /\ w[3] = "destinations,"

\* what a primary line says of its record, and what the record holds of it
LineKey(n, line) ==
    LET w == Words(line)
    IN  CASE n = 2 -> <<w[1], w[2]>>
          [] n \in {7, 8, 9} -> <<w[1], w[Len(w)]>>
          [] n = 13 -> <<w[1], w[2]>>
          [] n = 14 -> <<w[2], w[4]>>
          [] n = 15 -> <<Strip(line), "">>
          [] n = 16 -> <<BeforeColon(w[1]), "">>

RecordKey(n, record) ==
    CASE n = 2 -> <<record.interface, record.state>>
      [] n \in {7, 8} -> <<record.destination, record.metric>>
      [] n = 9 -> <<record.label, record.metric>>
      [] n = 13 -> <<record.peer, record.asn>>
      [] n = 14 -> <<record.peer, record.peer_as>>
      [] n = 15 -> <<record.system_name, "">>
      [] n = 16 -> <<record.table_name, "">>

\* the Records of the result of parser n
RecordsOf(n, value) ==
    CASE n \in {2, 7, 8, 9, 15} -> value.entries
      [] n = 13 -> value.peer_list
      [] n = 14 -> value.neighbors
      [] n = 16 -> value.tables

RECURSIVE PrimaryKeys(_, _)
PrimaryKeys(n, i) ==
    IF i > Len(SegmentLines) THEN <<>>
    ELSE (IF IsPrimaryLine(n, i) THEN <<LineKey(n, SegmentLines[i])>> ELSE <<>>)
         \o PrimaryKeys(n, i + 1)

C16_OneRecordPerPrimaryLine ==
    \A n \in RecordParsers :
        Parsed(n) =>
            /\ ~result.raised
            /\ [i \in 1..Len(RecordsOf(n, result.value)) |->
                    RecordKey(n, RecordsOf(n, result.value)[i])] = PrimaryKeys(n, 1)

(***************************************************************************)
(* C19.  For every parser and every segment that is not absent, a line     *)
(* that fits no recognised pattern, or whose tokens are not what the state *)
(* of the parser expects (a word that is not a number in a line of table   *)
(* statistics of the BGP summary), is ignored: the parse does not raise,   *)
(* and its result is the result on the segment without these lines.        *)
(***************************************************************************)
\* Line i of the segment of command n is such a line.  In the table section
\* of the BGP summary a line of letters is the name of a table, and in
\* the ISIS adjacency a line that starts at the margin is a system name.
IsMalformedLine(n, i) ==
    LET line == SegmentLines[i]
    IN  \/ /\ Strip(line) = Garbage
           /\ n = 13 => ~InBgpTables(i)
           /\ n = 15 => IsWs(line[1])
        \/ n = 13 /\ Strip(line) = Strip(BgpStatsBad)
        \/ n = 3 /\ Strip(line) = LldpBad
        \/ n = 4 /\ Strip(line) = BfdShort
        \/ n = 5 /\ Strip(line) = NeiBad
        \/ n = 10 /\ Strip(line) = MplsIfShort

RECURSIVE WellFormedLines(_, _)
WellFormedLines(n, i) ==
    IF i > Len(SegmentLines) THEN <<>>
    ELSE (IF IsMalformedLine(n, i) THEN <<>> ELSE <<SegmentLines[i]>>)
         \o WellFormedLines(n, i + 1)

C19_MalformedLineIgnored ==
    \A n \in LineParsers :
        Parsed(n) /\ segment.some =>
            /\ ~result.raised
            /\ result = Parse(n, Some(JoinLines(WellFormedLines(n, 1))),
                              Raise("Exception"))

(***************************************************************************)
(* Transcripts with one well-formed block of 'show arp no-resolve |        *)
(* no-more': the command line, the header of the table or none, N entry    *)
(* lines and 'Total entries: N', with or without the block of another      *)
(* command before it and after it.                                         *)
(***************************************************************************)
MaxArpLines == 2    \* entry lines in the ARP block

ArpHeader ==
    <<"MAC", SP, "Address", SP, SP, "Address", SP, SP, "Interface", SP, SP, "Flags">>

WellFormedArpBlock(head, entries) ==
    CommandLine(1) \o AfterNewlines(head \o entries)
        \o <<NL, "Total", SP, "entries:", SP, NumWord(Len(entries))>>

ArpEntryLines == UNION {[1..m -> {ArpE1, ArpE2}] : m \in 0..MaxArpLines}

RoundTripTranscripts ==
    {Transcript(before \o <<WellFormedArpBlock(head, entries)>> \o after) :
        before \in {<<>>, <<VrrpBlock(<<VrrpHeader, VrrpV1>>)>>},
        head \in {<<>>, <<ArpHeader>>},
        entries \in ArpEntryLines,
        after \in {<<>>, <<VrrpBlock(<<VrrpHeader, VrrpV2>>)>>}}

InitRoundTrip ==
    /\ terminal_output \in RoundTripTranscripts
    /\ extractor = 0
    /\ segment = None
    /\ NoParse /\ NoDiff

\* extract_show_arp_output_1, then the ARP parser on what it returns
NextRoundTrip == CallExtract(1) \/ ParseSegment(1)

SpecRoundTrip == InitRoundTrip /\ [][NextRoundTrip]_vars

(***************************************************************************)
(* C20.  ARP round trip: for a transcript with one well-formed block of    *)
(* 'show arp no-resolve | no-more' that has N entry lines and then 'Total  *)
(* entries: N', extracting the segment and parsing it with the regex       *)
(* parser gives total_entries = N and exactly N entries, the entry lines   *)
(* in their order, for every N >= 0.  The regex parser is what runs when   *)
(* the primary attempt (Genie and the conversion of its dict) has raised.  *)
(***************************************************************************)
\* the entry lines of the transcript: a MAC address, an IP address, an
\* interface and the flags
RECURSIVE TabularLines(_)
TabularLines(lines) ==
    IF Len(lines) = 0 THEN <<>>
    ELSE (IF Len(Words(Head(lines))) = 4 /\ IsHexWord(Words(Head(lines))[1])
             /\ IsIpWord(Words(Head(lines))[2])
          THEN <<Words(Head(lines))>> ELSE <<>>)
         \o TabularLines(Tail(lines))

C20_ArpRoundTrip ==
    LET lines == TabularLines(SplitLines(terminal_output))
    IN  Parsed(1) /\ PrimaryAttempt.raised =>
            /\ ~result.raised
            /\ result.value.total_entries = Len(lines)
            /\ Len(result.value.entries) = Len(lines)
            /\ \A i \in 1..Len(lines) :
                  result.value.entries[i] =
                      [mac_address |-> lines[i][1], ip_address |-> lines[i][2],
                       interface |-> lines[i][3], flags |-> lines[i][4]]

\* two entry lines under the header of the table, between two other blocks
C20_Witness ==
    /\ Parsed(1) /\ genie_outcome.raised
    /\ terminal_output =
          Transcript(<<VrrpBlock(<<VrrpHeader, VrrpV1>>),
                       WellFormedArpBlock(<<ArpHeader>>, <<ArpE2, ArpE1>>),
                       VrrpBlock(<<VrrpHeader, VrrpV2>>)>>)
    /\ result.value.total_entries = 2
    /\ Len(result.value.entries) = 2


(***************************************************************************)
(* Continuation lines: the next-hop lines of the route tables, the RIB     *)
(* line under a peer of the BGP summary, the lines of prefix counts under  *)
(* a table of a BGP neighbor and the rows of the transition log of an ISIS *)
(* adjacency.                                                              *)
(***************************************************************************)
ContinuationParsers == {7, 8, 9, 13, 14, 15}

\* Line i of the segment of command n is a continuation line.  In the table
\* section of the BGP summary a line of this form is the name of a table,
\* and in the ISIS adjacency a line at the margin is a system name.
IsContinuationLine(n, i) ==
    LET line == SegmentLines[i]
        s == Strip(line)
    IN  CASE n = 7 -> s \in {Strip(RouteHop), Strip(RouteLocal)}
          [] n = 8 -> s \in {Strip(RouteHop), Strip(RouteDiscard)}
          [] n = 9 -> s \in {Strip(RouteHop), Strip(RouteDiscard),
                             Strip(RouteToTable), Strip(RouteVia)}
          [] n = 13 -> s = Strip(BgpRib) /\ ~InBgpTables(i)
          [] n = 14 -> s \in {Strip(NbrActive), Strip(NbrReceived)}
          [] n = 15 -> s = Strip(IsisTransition) /\ IsWs(line[1])

\* the Record that line i of the segment would continue is open: a primary
\* line came before it, and for the prefix counts of a BGP neighbor a
\* 'Table' line came after the last primary line
RecordOpenAt(n, i) ==
    IF n = 14
    THEN \E t \in 1..(i - 1) :
            /\ Len(Words(SegmentLines[t])) >= 2
            /\ Words(SegmentLines[t])[1] = "Table"
            /\ \E p \in 1..(t - 1) : IsPrimaryLine(n, p)
            /\ \A k \in (t + 1)..(i - 1) : ~IsPrimaryLine(n, k)
    ELSE \E p \in 1..(i - 1) : IsPrimaryLine(n, p)

IsOrphanLine(n, i) == IsContinuationLine(n, i) /\ ~RecordOpenAt(n, i)

RECURSIVE WithoutOrphans(_, _)
WithoutOrphans(n, i) ==
    IF i > Len(SegmentLines) THEN <<>>
    ELSE (IF IsOrphanLine(n, i) THEN <<>> ELSE <<SegmentLines[i]>>)
         \o WithoutOrphans(n, i + 1)

(***************************************************************************)
(* C21.  A continuation line that arrives while no Record is open is       *)
(* dropped: the outcome of the parse, its Records and whether it raises,   *)
(* is the outcome on the segment without these lines, so the line creates  *)
(* no Record, changes no Record and raises no error; the parsers of the    *)
(* route tables, of the BGP neighbor and of the ISIS adjacency raise on no *)
(* segment at all.                                                         *)
(***************************************************************************)
C21_OrphanContinuationDropped ==
    \A n \in ContinuationParsers :
        Parsed(n) /\ segment.some =>
            /\ n # 13 => ~result.raised
            /\ result = Parse(n, Some(JoinLines(WithoutOrphans(n, 1))),
                              Raise("Exception"))

\* a next-hop line, a route and a next-hop line: the route has one next-hop
C21_Witness ==
    /\ Parsed(8) /\ segment.some /\ ~result.raised
    /\ Len(SegmentLines) = 3
    /\ IsOrphanLine(8, 1) /\ SegmentLines[1] = Strip(RouteHop)
    /\ IsPrimaryLine(8, 2)
    /\ SegmentLines[3] = RouteHop
    /\ Len(result.value.entries) = 1
    /\ Len(result.value.entries[1].next_hops) = 1


(***************************************************************************)
(* The ARP parser on segments of the ARP command, with Genie installed:    *)
(* the segment is absent or holds up to MaxLines lines (the header of the  *)
(* table, entry lines, the line of the total, a line of junk), and Genie   *)
(* raises or returns one of the dicts of GenieData.                        *)
(***************************************************************************)
ArpTotal2 == <<"Total", SP, "entries:", SP, "2">>

ArpLineKinds == {ArpHeader, ArpE1, ArpE2, ArpTotal2, Garbage}

ArpSegments ==
    {None} \cup
    {Some(Strip(JoinLines(ls))) :
        ls \in UNION {[1..m -> ArpLineKinds] : m \in 0..MaxLines}}

InitFallback ==
    /\ terminal_output = <<>>
    /\ extractor = 1 /\ segment \in ArpSegments
    /\ NoParse /\ NoDiff

NextFallback == CallParse(1)

SpecFallback == InitFallback /\ [][NextFallback]_vars

(***************************************************************************)
(* C22.  When the primary attempt of the ARP parser (Genie's parser and    *)
(* the conversion of its dict) raises, the outcome of the call is that of  *)
(* the regex parser on the same segment, with nothing of what the attempt  *)
(* had built; when the attempt succeeds the outcome is its value, whatever *)
(* the regex parser makes of the segment.                                  *)
(***************************************************************************)
C22_FallbackIsRegexAlone ==
    Parsed(1) =>
        IF PrimaryAttempt.raised
        THEN result = _parse_show_arp_no_resolve_regex(segment)
        ELSE result = PrimaryAttempt

\* Genie returned one entry and a count that is no number: the conversion
\* raised after the entry was built, and the result holds the entry of the
\* segment alone
C22_Witness ==
    /\ Parsed(1) /\ segment.some
    /\ ~genie_outcome.raised
    /\ genie_outcome.value.count = "many"
    /\ Len(genie_outcome.value.entries) = 1
    /\ genie_outcome.value.entries[1].mac = "bb:01"
    /\ PrimaryAttempt.raised
    /\ ~result.raised
    /\ Len(result.value.entries) = 1
    /\ result.value.entries[1].mac_address = "aa:01"
    /\ result.value.total_entries = 2


(***************************************************************************)
(* Python objects.  The lists and the dataclass instances that the calls   *)
(* make are objects of one heap, which all calls of the process share:     *)
(* heap[a] is the object at address a, and a new object takes the next     *)
(* address.  A call holds its objects by address in its local variables,   *)
(* and an object holds another by address; 0 stands for None.  The items   *)
(* of groups and of peer_list are addresses.  Strings and numbers are      *)
(* values, and so are the entries, the table and RIB records and the       *)
(* comparison dicts, which the code makes, appends and leaves as they are. *)
(***************************************************************************)
\* list(): a new empty list.  It is what field(default_factory=list) calls
\* for every instance, and what the display [] makes.
list(h) ==
    [heap |-> Append(h, [class |-> "list", items |-> <<>>]), ref |-> Len(h) + 1]

\* a new instance with these fields
Object(h, fields) == [heap |-> Append(h, fields), ref |-> Len(h) + 1]

\* the list at ref .append(x)
append(h, ref, x) == [h EXCEPT ![ref].items = Append(@, x)]

\* ShowRsvpSessionSection(section_type=..., total_sessions=...)
NewShowRsvpSessionSection(h, section_type, total_sessions) ==
    Object(list(h).heap,
           [class |-> "ShowRsvpSessionSection", section_type |-> section_type,
            total_sessions |-> total_sessions, entries |-> list(h).ref,
            total_displayed |-> 0, total_up |-> 0, total_down |-> 0])

\* ShowMplsLspP2mpSection(section_type=..., total_sessions=...)
NewShowMplsLspP2mpSection(h, section_type, total_sessions) ==
    Object(list(h).heap,
           [class |-> "ShowMplsLspP2mpSection", section_type |-> section_type,
            total_sessions |-> total_sessions, groups |-> list(h).ref,
            total_displayed |-> 0, total_up |-> 0, total_down |-> 0])

\* a ShowMplsLspP2mpGroup whose entries are the list of the first Group
\* that was made: one list for every instance of the class
NewShowMplsLspP2mpGroup_shared(h, p2mp_name, branch_count) ==
    LET earlier == {a \in DOMAIN h : h[a].class = "ShowMplsLspP2mpGroup"}
    IN  IF earlier = {}
        THEN Object(list(h).heap,
                    [class |-> "ShowMplsLspP2mpGroup", p2mp_name |-> p2mp_name,
                     branch_count |-> branch_count, entries |-> list(h).ref])
        ELSE Object(h,
                    [class |-> "ShowMplsLspP2mpGroup", p2mp_name |-> p2mp_name,
                     branch_count |-> branch_count,
                     entries |-> h[CHOOSE a \in earlier :
                                        \A b \in earlier : a <= b].entries])

\* ShowMplsLspP2mpGroup(p2mp_name=..., branch_count=...)
NewShowMplsLspP2mpGroup(h, p2mp_name, branch_count) ==
    Object(list(h).heap,
           [class |-> "ShowMplsLspP2mpGroup", p2mp_name |-> p2mp_name,
            branch_count |-> branch_count, entries |-> list(h).ref])

\* a ShowBgpSummary whose tables and peer_list are the lists of the first
\* ShowBgpSummary that was made: one list for every instance of the class
NewShowBgpSummary_shared(h) ==
    LET earlier == {a \in DOMAIN h : h[a].class = "ShowBgpSummary"}
        first == CHOOSE a \in earlier : \A b \in earlier : a <= b
    IN  Object(IF earlier = {} THEN list(list(h).heap).heap ELSE h,
               [class |-> "ShowBgpSummary", threading_mode |-> "",
                default_ebgp_mode |-> "", groups |-> 0, peers |-> 0,
                down_peers |-> 0,
                tables |-> IF earlier = {} THEN Len(h) + 1 ELSE h[first].tables,
                peer_list |-> IF earlier = {} THEN Len(h) + 2
                              ELSE h[first].peer_list])

\* ShowBgpSummary(): tables and peer_list are two new lists
NewShowBgpSummary(h) ==
    Object(list(list(h).heap).heap,
           [class |-> "ShowBgpSummary", threading_mode |-> "",
            default_ebgp_mode |-> "", groups |-> 0, peers |-> 0, down_peers |-> 0,
            tables |-> list(h).ref, peer_list |-> list(list(h).heap).ref])

\* ShowBgpSummaryPeer(peer=..., ..., state=...)
NewShowBgpSummaryPeer(h, fields) ==
    Object(list(h).heap,
           [class |-> "ShowBgpSummaryPeer", peer |-> fields.peer,
            asn |-> fields.asn, in_pkt |-> fields.in_pkt,
            out_pkt |-> fields.out_pkt, out_q |-> fields.out_q,
            flaps |-> fields.flaps, last_up_dwn |-> fields.last_up_dwn,
            state |-> fields.state, ribs |-> list(h).ref])

\* what a pass of a loop leaves: the heap, the locals of the call and the
\* exception it raised ("" for none)
Outcome(h, locals) == [heap |-> h, locals |-> locals, raise |-> ""]

\* current_section = <the Section made>; <result>.<name> = current_section;
\* current_section_type = <its type>
OpenSection(top, name, locals, made) ==
    Outcome([made.heap EXCEPT ![top][name] = made.ref],
            [locals EXCEPT !.current_section = made.ref,
                           !.current_section_type =
                                made.heap[made.ref].section_type])

\* One pass of 'for line in lines:' of _parse_show_rsvp_session_regex.
\*   r'Ingress RSVP:\s+(\d+)\s+sessions?'   (and Egress, Transit)
\*   r'Total\s+(\d+)\s+displayed,\s+Up\s+(\d+),\s+Down\s+(\d+)'
\*   r'^(\S+)\s+(\S+)\s+(\S+)\s+(\S+)\s+(\S+)\s+(\S+)\s+(\S+)\s+(\S+.*)$'
\* The entry pattern has eight groups, so len(match.groups()) >= 9 fails
\* and lspname is ""; labelout is group 8, the rest of the line.
RsvpSessionPass(h, locals, line) ==
    LET line_stripped == Strip(line)
        header(kind) ==
            <<kind, " ", "RSVP:", "\\s+", "\\d+", "\\s+", "sessions?">>
        found(kind) == SearchRe(FALSE, header(kind), line_stripped, 1)
        open(kind, name) ==
            OpenSection(locals.rsvp_session, name, locals,
                NewShowRsvpSessionSection(h, kind,
                    ToInt(WordsFrom(line_stripped, found(kind))[3])))
        s == SearchRe(FALSE, SummaryPattern, line_stripped, 1)
        pattern == <<"\\S+", "\\s+", "\\S+", "\\s+", "\\S+", "\\s+", "\\S+",
                     "\\s+", "\\S+", "\\s+", "\\S+", "\\s+", "\\S+", "\\s+",
                     "\\S+">>
        w == Words(line_stripped)
        rest == SubSeq(line_stripped,
                       MatchRe(FALSE, pattern, 1, line_stripped, 1) - 1,
                       Len(line_stripped))
    IN  IF Len(line_stripped) = 0 THEN Outcome(h, locals)
        ELSE IF found("Ingress") # 0 THEN open("Ingress", "ingress")
        ELSE IF found("Egress") # 0 THEN open("Egress", "egress")
        ELSE IF found("Transit") # 0 THEN open("Transit", "transit")
        ELSE IF InLine("To", line_stripped) /\ InLine("From", line_stripped)
                   /\ InLine("State", line_stripped)
        THEN Outcome(h, locals)
        ELSE IF s # 0 /\ locals.current_section # 0
        THEN Outcome([h EXCEPT ![locals.current_section] =
                        WithTotals(@, SummaryTotals(WordsFrom(line_stripped, s)))],
                     locals)
        ELSE IF MatchRe(FALSE, pattern, 1, line_stripped, 1) # NoMatch
                   /\ locals.current_section # 0
        THEN Outcome(append(h, h[locals.current_section].entries,
                            [to |-> w[1], from_addr |-> w[2], state |-> w[3],
                             rt |-> w[4], style |-> <<w[5], " ", w[6]>>,
                             labelin |-> w[7], labelout |-> rest,
                             lspname |-> ""]),
                     locals)
        ELSE Outcome(h, locals)

\* One pass of 'for line in lines:' of _parse_show_mpls_lsp_p2mp_regex.
\*   r'Ingress LSP:\s+(\d+)\s+sessions?'   (and Egress, Transit)
\*   r'P2MP name:\s+(.+?),\s+P2MP branch count:\s+(\d+)'
\*   r'^(\S+)\s+(\S+)\s+(\S+)\s+(\S+)\s+(\S+)\s+(\S*)\s+(.+)$'           Ingress
\*   r'^(\S+)\s+(\S+)\s+(\S+)\s+(\S+)\s+(\S+)\s+(\S+)\s+(\S+)\s+(\S+)\s+(.+)$'
\* A section header sets current_group = None without appending the open
\* group.
P2mpPass(h, locals, line) ==
    LET current_section == locals.current_section
        current_group == locals.current_group
        \* if current_group: current_section.groups.append(current_group)
        flushed == IF current_group # 0
                   THEN append(h, h[current_section].groups, current_group)
                   ELSE h
        line_stripped == Strip(line)
        header(kind) ==
            <<kind, " ", "LSP:", "\\s+", "\\d+", "\\s+", "sessions?">>
        found(kind) == SearchRe(FALSE, header(kind), line_stripped, 1)
        open(kind, name) ==
            OpenSection(locals.mpls_lsp_p2mp, name,
                [locals EXCEPT !.current_group = 0],
                NewShowMplsLspP2mpSection(h, kind,
                    ToInt(WordsFrom(line_stripped, found(kind))[3])))
        name_pattern ==
            <<"P2MP", " ", "name:", "\\s+", ".+?,", "\\s+", "P2MP", " ",
              "branch", " ", "count:", "\\s+", "\\d+">>
        p2mp == SearchRe(FALSE, name_pattern, line_stripped, 1)
        \* the match, from 'P2MP' to the word that group 2 is taken from:
        \* group 1 runs from the third word to the comma of the fifth word
        \* from the end
        matched ==
            SubSeq(line_stripped, p2mp,
                   MatchFrom(FALSE, name_pattern, line_stripped, p2mp) - 1)
        pw == Words(matched)
        comma == WordAt(matched, Len(pw) - 4)
        s == SearchRe(FALSE, SummaryPattern, line_stripped, 1)
        w == Words(line_stripped)
        five == <<"\\S+", "\\s+", "\\S+", "\\s+", "\\S+", "\\s+", "\\S+",
                  "\\s+", "\\S+", "\\s+">>
        ingress == five \o <<"\\S*", "\\s+", ".+">>
        other == five \o <<"\\S+", "\\s+", "\\S+", "\\s+", "\\S+",
                           "\\s+", ".+">>
        \* the last group of a pattern: the line from where it starts
        rest(pat) ==
            SubSeq(line_stripped,
                   MatchRe(FALSE, SubSeq(pat, 1, Len(pat) - 1), 1,
                           line_stripped, 1),
                   Len(line_stripped))
        blank == [to |-> w[1], from_addr |-> w[2], state |-> w[3],
                  rt |-> w[4], p |-> "", active_path |-> "",
                  style |-> "", labelin |-> "", labelout |-> "",
                  lspname |-> ""]
        \* current_group.entries.append(entry)
        with(entry) == Outcome(append(h, h[current_group].entries, entry), locals)
        group(made) == Outcome(made.heap, [locals EXCEPT !.current_group = made.ref])
    IN  IF Len(line_stripped) = 0 THEN Outcome(h, locals)
        ELSE IF found("Ingress") # 0 THEN open("Ingress", "ingress")
        ELSE IF found("Egress") # 0 THEN open("Egress", "egress")
        ELSE IF found("Transit") # 0 THEN open("Transit", "transit")
        ELSE IF p2mp # 0 /\ current_section # 0
        THEN group(NewShowMplsLspP2mpGroup(flushed,
                        SubSeq(matched, WordAt(matched, 3), comma - 1)
                            \o <<BeforeComma(matched[comma])>>,
                        ToInt(DigitsAtStart(pw[Len(pw)]))))
        ELSE IF InLine("To", line_stripped) /\ InLine("From", line_stripped)
        THEN Outcome(h, locals)
        ELSE IF s # 0 /\ current_section # 0
        THEN Outcome([flushed EXCEPT ![current_section] =
                        WithTotals(@, SummaryTotals(WordsFrom(line_stripped, s)))],
                     [locals EXCEPT !.current_group = 0])
        ELSE IF current_group = 0 THEN Outcome(h, locals)
        ELSE IF locals.current_section_type = "Ingress"
        THEN (IF MatchRe(FALSE, ingress, 1, line_stripped, 1) # NoMatch
              THEN with([blank EXCEPT
                            !.p = w[5],
                            !.active_path =
                                IF Len(Words(rest(ingress))) = Len(w) - 5
                                THEN "" ELSE w[6],
                            !.lspname = Strip(rest(ingress))])
              ELSE Outcome(h, locals))
        ELSE (IF MatchRe(FALSE, other, 1, line_stripped, 1) # NoMatch
              THEN with([blank EXCEPT
                            !.style = <<w[5], " ", w[6]>>,
                            !.labelin = w[7], !.labelout = w[8],
                            !.lspname = Strip(rest(other))])
              ELSE Outcome(h, locals))

\* One pass of 'for line in lines:' of _parse_show_bgp_summary_regex.
\* table_name is <<>> while the local is not set ('table_name' in locals()).
\*   r'Groups:\s+(\d+)\s+Peers:\s+(\d+)\s+Down peers:\s+(\d+)'
\*   r'^(\S+)\s+(\d+)\s+(\d+)\s+(\d+)\s+(\d+)\s+(\d+)\s+(.+?)\s+(Active|Establ|[A-Z]\S+)'
\* In the table section int(parts[i]) is called on the first six words of
\* a line that starts with a digit and raises ValueError on a word that is
\* not a number.
BgpSummaryPass(h, locals, line) ==
    LET bgp_summary == locals.bgp_summary
        current_peer == locals.current_peer
        line_stripped == Strip(line)
        w == Words(line_stripped)
        g == SearchRe(FALSE,
                <<"Groups:", "\\s+", "\\d+", "\\s+", "Peers:", "\\s+", "\\d+",
                  "\\s+", "Down", " ", "peers:", "\\s+", "\\d+">>,
                line_stripped, 1)
        gw == WordsFrom(line_stripped, g)
        peer_pattern ==
            <<"\\S+", "\\s+", "\\d+", "\\s+", "\\d+", "\\s+", "\\d+",
              "\\s+", "\\d+", "\\s+", "\\d+", "\\s+", ".+?", "\\s+",
              "Active|Establ|[A-Z]\\S+">>
        peer_match == MatchRe(FALSE, peer_pattern, 1, line_stripped, 1)
        \* the word that group 8 is taken from
        k8 == peer_match - 1
        colons == {i \in 1..Len(line_stripped) : Contains(line_stripped[i], ":")}
        c == CHOOSE i \in colons : TRUE
        \* if current_peer: bgp_summary.peer_list.append(current_peer)
        kept == IF current_peer # 0
                THEN append(h, h[bgp_summary].peer_list, current_peer)
                ELSE h
        peer(made) == Outcome(made.heap, [locals EXCEPT !.current_peer = made.ref])
    IN  IF Len(w) >= 2 /\ SubSeq(line_stripped, 1, 3) = <<"Threading", " ", "mode:">>
        THEN Outcome([h EXCEPT ![bgp_summary].threading_mode =
                        Strip(SubSeq(line_stripped, 4, Len(line_stripped)))],
                     locals)
        ELSE IF Len(w) >= 3 /\ SubSeq(line_stripped, 1, 5)
                                  = <<"Default", " ", "eBGP", " ", "mode:">>
        THEN Outcome([h EXCEPT ![bgp_summary].default_ebgp_mode =
                        Strip(SubSeq(line_stripped, 6, Len(line_stripped)))],
                     locals)
        ELSE IF g # 0
        THEN Outcome([h EXCEPT ![bgp_summary].groups = ToInt(gw[2]),
                               ![bgp_summary].peers = ToInt(gw[4]),
                               ![bgp_summary].down_peers =
                                    ToInt(DigitsAtStart(gw[7]))],
                     locals)
        ELSE IF InLine("Table", line_stripped)
                /\ InLineTwo("Tot", "Paths", line_stripped)
        THEN Outcome(h, [locals EXCEPT !.in_table_section = TRUE])
        ELSE IF locals.in_table_section /\ Len(w) > 0
                /\ ~StartsWith(w[1], "Peer") /\ StartsWithLetter(w[1])
        THEN Outcome(h, [locals EXCEPT !.table_name = line_stripped])
        ELSE IF locals.in_table_section /\ Len(w) > 0 /\ StartsWithDigit(w[1])
        THEN (IF Len(w) < 6 THEN Outcome(h, locals)
              ELSE IF \E i \in 1..6 : ~IsNumber(w[i])
              THEN [heap |-> h, locals |-> locals, raise |-> "ValueError"]
              ELSE Outcome(append(h, h[bgp_summary].tables,
                                  [table_name |-> locals.table_name,
                                   total_paths |-> ToInt(w[1]),
                                   active_paths |-> ToInt(w[2]),
                                   suppressed |-> ToInt(w[3]),
                                   history |-> ToInt(w[4]),
                                   damp_state |-> ToInt(w[5]),
                                   pending |-> ToInt(w[6])]),
                           locals))
        ELSE IF Len(w) > 0 /\ StartsWith(w[1], "Peer")
                /\ InLine("AS", line_stripped)
        THEN Outcome(h, [locals EXCEPT !.in_table_section = FALSE])
        ELSE IF peer_match # NoMatch
        THEN peer(NewShowBgpSummaryPeer(kept,
                    [peer |-> w[1], asn |-> w[2], in_pkt |-> w[3],
                     out_pkt |-> w[4], out_q |-> w[5], flaps |-> w[6],
                     last_up_dwn |->
                        Strip(SubSeq(line_stripped,
                                     WordAt(line_stripped, 6) + 1, k8 - 1)),
                     state |-> PeerState(line_stripped[k8])]))
        ELSE IF current_peer # 0 /\ Cardinality(colons) = 1
                /\ HasOneColon(line_stripped[c])
        THEN Outcome(append(h, h[current_peer].ribs,
                            [table_name |->
                                SubSeq(line_stripped, 1, c - 1)
                                \o Word(BeforeColon(line_stripped[c])),
                             active_received_accepted_damped |->
                                Strip(Word(AfterColon(line_stripped[c]))
                                      \o SubSeq(line_stripped, c + 1,
                                                Len(line_stripped)))]),
                     locals)
        ELSE Outcome(h, locals)

\* one pass of the loop of the parser of a command
Pass(h, command, locals, line) ==
    CASE command \in {6, 20} -> RsvpSessionPass(h, locals, line)
      [] command = 12 -> P2mpPass(h, locals, line)
      [] command = 13 -> BgpSummaryPass(h, locals, line)

\* the comparison entry of one key of compare_arp_entries
comp_entry(pre_dict, post_dict, ip) ==
    IF ip \in DOMAIN pre_dict /\ ip \in DOMAIN post_dict
    THEN JDict(<<
        KV("ip_address", JStr(compare_values(pre_dict[ip].ip_address,
                                             post_dict[ip].ip_address))),
        KV("mac_address", JStr(compare_values(pre_dict[ip].mac_address,
                                              post_dict[ip].mac_address))),
        KV("interface", JStr(compare_values(pre_dict[ip].interface,
                                            post_dict[ip].interface))),
        KV("flags", JStr(compare_values(pre_dict[ip].flags,
                                        post_dict[ip].flags)))>>)
    ELSE IF ip \in DOMAIN pre_dict THEN ArpOneSided("deleted")
    ELSE ArpOneSided("added")

(***************************************************************************)
(* Calls.  A call is an invocation of an extractor, of a parser or of the  *)
(* diff of the ARP entries, with its input.  It has a frame: what its loop *)
(* has yet to read (the lines of the segment, the matches of the command   *)
(* pattern, the sorted keys), its local variables and, once it is over,    *)
(* what it returned or raised; made is the set of the addresses of the     *)
(* objects it made.  A step is the entry of a call, one pass of the loop   *)
(* of a call in progress, or its return.                                   *)
(***************************************************************************)
Frame(call, todo, locals) ==
    [kind |-> call.kind, command |-> call.command, input |-> call.input,
     todo |-> todo, locals |-> locals, returned |-> FALSE, result |-> NoResult,
     made |-> {}]

\* an extractor up to its loop: matches = [] and the iterator of the
\* matches of the command pattern (second-occurrence extractor); the other
\* extractors have no loop
EnterExtract(h, call) ==
    IF call.command = 20
    THEN [heap |-> list(h).heap,
          frame |-> Frame(call,
                          FindIter(<<"show", "\\s+", "rsvp", "\\s+", "session",
                                     "\\s*", "$">>, call.input, 1),
                          [matches |-> list(h).ref])]
    ELSE [heap |-> h, frame |-> Frame(call, <<>>, [matches |-> 0])]

\* a parser up to its loop: the result object, lines = cli_output.split('\n')
\* and the locals set to None; cli_output.split raises AttributeError on
\* None, and the parser of the second 'show rsvp session' returns a new
\* ShowRsvpSession() for an output that is None, blank or 'none'
EnterParse(h, call) ==
    LET n == call.command
        made == CASE n \in {6, 20} ->
                        Object(h, [class |-> "ShowRsvpSession", ingress |-> 0,
                                   egress |-> 0, transit |-> 0])
                  [] n = 12 ->
                        Object(h, [class |-> "ShowMplsLspP2mp", ingress |-> 0,
                                   egress |-> 0, transit |-> 0])
                  [] n = 13 -> NewShowBgpSummary(h)
        locals == CASE n \in {6, 20} ->
                        [rsvp_session |-> made.ref, current_section |-> 0,
                         current_section_type |-> ""]
                    [] n = 12 ->
                        [mpls_lsp_p2mp |-> made.ref, current_section |-> 0,
                         current_section_type |-> "", current_group |-> 0]
                    [] n = 13 ->
                        [bgp_summary |-> made.ref, current_peer |-> 0,
                         in_table_section |-> FALSE, table_name |-> <<>>]
    IN  [heap |-> made.heap,
         frame |->
            IF n = 20 /\ IsEmptyOutput(call.input)
            THEN Frame(call, <<>>, locals)
            ELSE IF ~call.input.some
            THEN [Frame(call, <<>>, locals) EXCEPT
                    !.returned = TRUE, !.result = Raise("AttributeError")]
            ELSE Frame(call, SplitLines(call.input.text), locals)]

\* compare_arp_entries up to its loop: pre_dict, post_dict,
\* comparison_entries = [] and sorted(all_ips)
EnterDiff(h, call) ==
    [heap |-> list(h).heap,
     frame |-> Frame(call,
                     Sorted("arp", DOMAIN IndexBy("arp", call.input[1])
                                    \cup DOMAIN IndexBy("arp", call.input[2])),
                     [pre_dict |-> IndexBy("arp", call.input[1]),
                      post_dict |-> IndexBy("arp", call.input[2]),
                      comparison_entries |-> list(h).ref])]

Enter(h, call) ==
    CASE call.kind = "extract" -> EnterExtract(h, call)
      [] call.kind = "parse" -> EnterParse(h, call)
      [] call.kind = "diff" -> EnterDiff(h, call)

\* what a call does after its loop, and what it returns
Leave(h, frame) ==
    LET locals == frame.locals
    IN  CASE frame.kind = "extract" ->
                [heap |-> h,
                 result |-> Return(IF frame.command # 20
                                   THEN Extract(frame.command, frame.input)
                                   ELSE IF Len(h[locals.matches].items) >= 2
                                   THEN h[locals.matches].items[2]
                                   ELSE None)]
          [] frame.kind = "diff" ->
                [heap |-> h, result |-> Return(locals.comparison_entries)]
          [] frame.kind = "parse" /\ frame.command \in {6, 20} ->
                [heap |-> h, result |-> Return(locals.rsvp_session)]
          [] frame.kind = "parse" /\ frame.command = 12 ->
                \* if current_group and current_section: ...append
                [heap |-> IF locals.current_group # 0 /\ locals.current_section # 0
                          THEN append(h, h[locals.current_section].groups,
                                      locals.current_group)
                          ELSE h,
                 result |-> Return(locals.mpls_lsp_p2mp)]
          [] frame.kind = "parse" /\ frame.command = 13 ->
                \* if current_peer: bgp_summary.peer_list.append(current_peer)
                [heap |-> IF locals.current_peer # 0
                          THEN append(h, h[locals.bgp_summary].peer_list,
                                      locals.current_peer)
                          ELSE h,
                 result |-> Return(locals.bgp_summary)]

\* a caller makes a call
Call(call) ==
    /\ \E e \in {Enter(heap, call)} :
          /\ heap' = e.heap
          /\ frames' = Append(frames,
                          [e.frame EXCEPT !.made = (Len(heap) + 1)..Len(e.heap)])
    /\ UNCHANGED <<segVars, parseVars, diffVars, returned>>

\* the frame of call i after a pass that left out
AfterPass(i, out) ==
    [frames EXCEPT
        ![i].todo = Tail(@),
        ![i].locals = out.locals,
        ![i].made = @ \cup ((Len(heap) + 1)..Len(out.heap)),
        ![i].returned = out.raise # "",
        ![i].result = IF out.raise # "" THEN Raise(out.raise) ELSE @]

\* call i, a parser, makes one pass of 'for line in lines:'
ForLine(i) ==
    /\ i \in DOMAIN frames
    /\ frames[i].kind = "parse"
    /\ ~frames[i].returned
    /\ Len(frames[i].todo) > 0
    /\ \E out \in {Pass(heap, frames[i].command, frames[i].locals,
                        Head(frames[i].todo))} :
          heap' = out.heap /\ frames' = AfterPass(i, out)
    /\ UNCHANGED <<segVars, parseVars, diffVars, returned>>

\* call i, the second-occurrence extractor, makes one pass of
\* 'for match in re.finditer(...)': matches.append(<the block of the match>)
ForMatch(i) ==
    /\ i \in DOMAIN frames
    /\ frames[i].kind = "extract"
    /\ ~frames[i].returned
    /\ Len(frames[i].todo) > 0
    /\ \E out \in {Outcome(append(heap, frames[i].locals.matches,
                        TrimBlock(SubSeq(frames[i].input,
                                         Head(frames[i].todo).start,
                                         NextPromptAfter(frames[i].input,
                                                Head(frames[i].todo).end) - 1))),
                        frames[i].locals)} :
          heap' = out.heap /\ frames' = AfterPass(i, out)
    /\ UNCHANGED <<segVars, parseVars, diffVars, returned>>

\* call i, the diff, makes one pass of 'for ip in sorted(all_ips):'
\* comparison_entries.append(comp_entry)
ForIp(i) ==
    /\ i \in DOMAIN frames
    /\ frames[i].kind = "diff"
    /\ ~frames[i].returned
    /\ Len(frames[i].todo) > 0
    /\ \E out \in {Outcome(append(heap, frames[i].locals.comparison_entries,
                        comp_entry(frames[i].locals.pre_dict,
                                   frames[i].locals.post_dict,
                                   Head(frames[i].todo))),
                        frames[i].locals)} :
          heap' = out.heap /\ frames' = AfterPass(i, out)
    /\ UNCHANGED <<segVars, parseVars, diffVars, returned>>

\* call i leaves its loop and returns
ReturnFrom(i) ==
    /\ i \in DOMAIN frames
    /\ ~frames[i].returned
    /\ Len(frames[i].todo) = 0
    /\ \E out \in {Leave(heap, frames[i])} :
          /\ heap' = out.heap
          /\ frames' = [frames EXCEPT ![i].returned = TRUE,
                                      ![i].result = out.result]
    /\ UNCHANGED <<segVars, parseVars, diffVars, returned>>

(***************************************************************************)
(* The value of an object: what equality of the dataclasses compares and   *)
(* to_dict shows, the objects it holds taken by value.  It is in the form  *)
(* in which the parsers of the model give their results.                   *)
(***************************************************************************)
ItemsOf(h, ref) == h[ref].items

RsvpSessionValue(h, ref) ==
    LET section(s) ==
            IF s = 0 THEN None
            ELSE Some([section_type |-> h[s].section_type,
                       total_sessions |-> h[s].total_sessions,
                       entries |-> ItemsOf(h, h[s].entries),
                       total_displayed |-> h[s].total_displayed,
                       total_up |-> h[s].total_up,
                       total_down |-> h[s].total_down])
    IN  [ingress |-> section(h[ref].ingress), egress |-> section(h[ref].egress),
         transit |-> section(h[ref].transit)]

P2mpValue(h, ref) ==
    LET group(g) == [p2mp_name |-> h[g].p2mp_name,
                     branch_count |-> h[g].branch_count,
                     entries |-> ItemsOf(h, h[g].entries)]
        section(s) ==
            IF s = 0 THEN None
            ELSE Some([section_type |-> h[s].section_type,
                       total_sessions |-> h[s].total_sessions,
                       groups |-> [k \in 1..Len(ItemsOf(h, h[s].groups)) |->
                                      group(ItemsOf(h, h[s].groups)[k])],
                       total_displayed |-> h[s].total_displayed,
                       total_up |-> h[s].total_up,
                       total_down |-> h[s].total_down])
    IN  [ingress |-> section(h[ref].ingress), egress |-> section(h[ref].egress),
         transit |-> section(h[ref].transit)]

BgpSummaryValue(h, ref) ==
    LET peer(p) == [peer |-> h[p].peer, asn |-> h[p].asn, in_pkt |-> h[p].in_pkt,
                    out_pkt |-> h[p].out_pkt, out_q |-> h[p].out_q,
                    flaps |-> h[p].flaps, last_up_dwn |-> h[p].last_up_dwn,
                    state |-> h[p].state, ribs |-> ItemsOf(h, h[p].ribs)]
    IN  [threading_mode |-> h[ref].threading_mode,
         default_ebgp_mode |-> h[ref].default_ebgp_mode,
         groups |-> h[ref].groups, peers |-> h[ref].peers,
         down_peers |-> h[ref].down_peers,
         tables |-> ItemsOf(h, h[ref].tables),
         peer_list |-> [k \in 1..Len(ItemsOf(h, h[ref].peer_list)) |->
                           peer(ItemsOf(h, h[ref].peer_list)[k])]]

\* what a call gave, by value: the exception it raised, the str or None an
\* extractor returned, or the value of the object a parser or the diff
\* returned
ValueOf(h, kind, command, given) ==
    IF given.raised \/ kind = "extract" THEN given
    ELSE IF kind = "diff" THEN Return(ItemsOf(h, given.value))
    ELSE IF command = 12 THEN Return(P2mpValue(h, given.value))
    ELSE IF command = 13 THEN Return(BgpSummaryValue(h, given.value))
    ELSE Return(RsvpSessionValue(h, given.value))

(***************************************************************************)
(* Runs one after another on one transcript: a run calls an extractor on   *)
(* the transcript and, when it has returned, the parser of the command on  *)
(* the segment; the caller keeps the result and starts the next run.  The  *)
(* objects of the earlier runs stay on the heap.  The transcript holds the *)
(* block of 'show bgp summary' or one or two blocks of 'show rsvp          *)
(* session'.                                                               *)
(***************************************************************************)
MaxRuns == 3        \* runs on the transcript
MaxRunLines == 3    \* output lines of the BGP summary block

RunCommands == {13, 20}

BgpRunKinds == {BgpTables, BgpRib, BgpStats, BgpPeers, BgpPeer1}
RsvpRunBodies == {<<>>, <<RsvpIngress>>, <<RsvpIngress, RsvpS1>>, <<RsvpEgress, RsvpS2>>}

RunTranscripts ==
    {Transcript(<<CommandLine(13) \o AfterNewlines(ls)>>) :
        ls \in UNION {[1..m -> BgpRunKinds] : m \in 0..MaxRunLines}}
    \cup {Transcript(<<CommandLine(19) \o AfterNewlines(a)>>) : a \in RsvpRunBodies}
    \cup {Transcript(<<CommandLine(19) \o AfterNewlines(a),
                       CommandLine(19) \o AfterNewlines(b)>>) :
            a \in RsvpRunBodies, b \in RsvpRunBodies}

\* a run starts: output_n = extract_..._n(raw_output)
RunExtract(n) ==
    /\ frames = <<>>
    /\ Len(returned) < MaxRuns
    /\ Call([kind |-> "extract", command |-> n, input |-> terminal_output])

\* the extractor has returned: result_n = parse_...(output_n)
RunParse ==
    /\ Len(frames) = 1
    /\ frames[1].returned
    /\ Call([kind |-> "parse", command |-> frames[1].command,
             input |-> frames[1].result.value])

\* the parser has returned: the caller keeps the segment, the result and,
\* as value, what the result is at this moment
RunDone ==
    /\ Len(frames) = 2
    /\ frames[2].returned
    /\ returned' = Append(returned,
            [command |-> frames[2].command, segment |-> frames[2].input,
             result |-> frames[2].result,
             value |-> ValueOf(heap, "parse", frames[2].command, frames[2].result)])
    /\ frames' = <<>>
    /\ UNCHANGED <<segVars, parseVars, diffVars, heap>>

NextRuns ==
    \/ \E n \in RunCommands : RunExtract(n)
    \/ RunParse
    \/ RunDone
    \/ \E i \in 1..2 : ForMatch(i) \/ ForLine(i) \/ ReturnFrom(i)

InitRuns ==
    /\ terminal_output \in RunTranscripts
    /\ extractor = 0
    /\ segment = None
    /\ NoParse /\ NoDiff

SpecRuns == InitRuns /\ [][NextRuns]_vars

(***************************************************************************)
(* C23.  Runs of extract then parse of one command on one transcript give  *)
(* equal segments and structurally equal results (the value of the object  *)
(* returned, or the exception raised), whatever runs came before on the    *)
(* same heap; what a run gives is what the extractor gives on the          *)
(* transcript and the parser on the segment, its input alone; and the      *)
(* result of a run is not changed by the runs after it: its value stays    *)
(* what it was when the run returned.                                      *)
(***************************************************************************)
C23_SameTranscriptSameResult ==
    /\ \A i, j \in 1..Len(returned) :
          returned[i].command = returned[j].command =>
              /\ returned[i].segment = returned[j].segment
              /\ returned[i].value = returned[j].value
    \* of the run that has just returned (every run was once that run)
    /\ frames = <<>> /\ Len(returned) > 0 =>
          LET run == returned[Len(returned)]
          IN  /\ run.segment = Extract(run.command, terminal_output)
              /\ run.value = Parse(run.command, run.segment, Raise("Exception"))
    /\ \A i \in 1..Len(returned) :
          ValueOf(heap, "parse", returned[i].command, returned[i].result)
              = returned[i].value

\* Three runs: the BGP summary, the second 'show rsvp session', the BGP
\* summary again.  The block of the summary has a line of table statistics
\* with no line of the table name before it; the two results of the summary
\* are two objects with one value.
C23_Witness ==
    /\ Len(returned) = 3
    /\ returned[1].command = 13 /\ returned[2].command = 20
    /\ returned[3].command = 13
    /\ ~returned[1].result.raised /\ ~returned[3].result.raised
    /\ returned[1].result.value # returned[3].result.value
    /\ Len(returned[3].value.value.tables) = 1
    /\ returned[3].value.value.tables[1].table_name = <<>>
    /\ returned[3].value = returned[1].value


(***************************************************************************)
(* Calls in progress at the same time on independent inputs: parsers of    *)
(* 'show rsvp session' and 'show mpls lsp p2mp' on segments, the           *)
(* second-occurrence extractor on transcripts and the diff of two lists of *)
(* ARP entries.  A call may start while others are in their loops, and the *)
(* steps of the calls come in any order, all on one heap.                  *)
(***************************************************************************)
MaxFrames == 2       \* calls in progress
MaxFrameLines == 3   \* lines of the segment of a call

FrameCommands == {6, 12}

FrameKinds(n) ==
    IF n = 6 THEN {RsvpIngress, RsvpS1}
    ELSE {P2mpIngress, P2mpGroup1, RsvpS1}

FrameTranscripts ==
    {Transcript(<<CommandLine(19) \o AfterNewlines(<<RsvpIngress>>)>>)}
    \cup {Transcript(<<CommandLine(19) \o AfterNewlines(<<RsvpIngress>>),
                       CommandLine(19) \o AfterNewlines(b)>>) :
            b \in {<<>>, <<RsvpEgress, RsvpS2>>}}

FrameEntryLists ==
    {<<>>, <<ArpBase1>>, <<ArpBase2, [ArpBase1 EXCEPT !.mac_address = "aa:02"]>>}

\* the calls: the command with the segment handed to its parser, the
\* transcript handed to the extractor, the two entry lists handed to the diff
FrameCalls ==
    UNION {{[kind |-> "parse", command |-> n,
             input |-> Some(Strip(JoinLines(ls)))] :
                ls \in UNION {[1..m -> FrameKinds(n)] : m \in 0..MaxFrameLines}} :
           n \in FrameCommands}
    \cup {[kind |-> "extract", command |-> 20, input |-> t] :
            t \in FrameTranscripts}
    \cup {[kind |-> "diff", command |-> 1, input |-> <<pre, post>>] :
            pre \in FrameEntryLists, post \in FrameEntryLists \ {<<>>}}

CallInProgress(call) ==
    /\ Len(frames) < MaxFrames
    /\ Call(call)

NextFrames ==
    \/ \E call \in FrameCalls : CallInProgress(call)
    \/ \E i \in 1..MaxFrames :
          ForLine(i) \/ ForMatch(i) \/ ForIp(i) \/ ReturnFrom(i)

InitFrames ==
    /\ terminal_output = <<>> /\ extractor = 0 /\ segment = None
    /\ NoParse /\ NoDiff

SpecFrames == InitFrames /\ [][NextFrames]_vars

\* what the call of a frame gives when it is the only call: the parser, the
\* extractor or the diff applied to its input
Alone(frame) ==
    CASE frame.kind = "parse" ->
            Parse(frame.command, frame.input, Raise("Exception"))
      [] frame.kind = "extract" -> Return(Extract(frame.command, frame.input))
      [] frame.kind = "diff" ->
            Return(compare_arp_entries(frame.input[1], frame.input[2]))

\* the calls that take the step: a pass shortens what the loop has yet to
\* read, and a return is a return
Stepping ==
    {i \in DOMAIN frames : \/ Len(frames'[i].todo) # Len(frames[i].todo)
                            \/ frames'[i].returned # frames[i].returned}

\* the objects a call can get at: those its local variables name and those
\* that these hold, down to the lists of the entries
ReachableFrom(h, frame) ==
    LET locals == frame.locals
        sections(top) == {h[top].ingress, h[top].egress, h[top].transit}
        held(lists) == UNION {{h[l].items[k] : k \in 1..Len(h[l].items)} : l \in lists}
    IN  CASE frame.kind = "extract" -> {locals.matches} \ {0}
          [] frame.kind = "diff" -> {locals.comparison_entries}
          [] frame.kind = "parse" /\ frame.command \in {6, 20} ->
                LET S == (sections(locals.rsvp_session)
                            \cup {locals.current_section}) \ {0}
                IN  {locals.rsvp_session} \cup S \cup {h[s].entries : s \in S}
          [] frame.kind = "parse" /\ frame.command = 12 ->
                LET S == (sections(locals.mpls_lsp_p2mp)
                            \cup {locals.current_section}) \ {0}
                    G == (held({h[s].groups : s \in S})
                            \cup {locals.current_group}) \ {0}
                IN  {locals.mpls_lsp_p2mp} \cup S \cup {h[s].groups : s \in S}
                        \cup G \cup {h[g].entries : g \in G}
          [] frame.kind = "parse" /\ frame.command = 13 ->
                LET P == (held({h[locals.bgp_summary].peer_list})
                            \cup {locals.current_peer}) \ {0}
                IN  {locals.bgp_summary, h[locals.bgp_summary].tables,
                     h[locals.bgp_summary].peer_list}
                        \cup P \cup {h[p].ribs : p \in P}

(***************************************************************************)
(* C24.  With the steps of the calls in any order, every object a call can *)
(* get at is one it made itself (the result under construction, the        *)
(* current Section and the current Group with their lists), so that no     *)
(* call reads an object of another; a step of a call writes no object that *)
(* another call made; and a call that has returned gives, then and at      *)
(* every later step of the others, what it gives when it runs alone on its *)
(* input.                                                                  *)
(***************************************************************************)
C24_InterleavedAsAlone ==
    [][/\ \A i \in DOMAIN frames' :
              ReachableFrom(heap', frames'[i]) \subseteq frames'[i].made
       /\ \A i \in Stepping : \A a \in DOMAIN heap :
              heap'[a] # heap[a] => a \in frames[i].made
       /\ \A i \in DOMAIN frames' :
              frames'[i].returned =>
                  ValueOf(heap', frames'[i].kind, frames'[i].command,
                          frames'[i].result) = Alone(frames'[i])]_vars

\* A call of the P2MP parser and a call of the second-occurrence extractor
\* have returned.  The extractor started, and made its list, between two
\* passes of the parser that made objects; the parser read a group header
\* and an entry and holds the Group, the extractor found two blocks and
\* returned the second.
C24_Witness ==
    /\ Len(frames) = 2
    /\ frames[1].returned /\ frames[2].returned
    /\ frames[1].kind = "parse" /\ frames[1].command = 12
    /\ frames[2].kind = "extract"
    /\ \E a, c \in frames[1].made : \E b \in frames[2].made : a < b /\ b < c
    /\ SplitLines(frames[1].input.text) = <<P2mpIngress, P2mpGroup1, RsvpS1>>
    /\ Len(P2mpValue(heap, frames[1].result.value).ingress.text.groups) = 1
    /\ Len(P2mpValue(heap, frames[1].result.value).ingress.text.groups[1].entries) = 1
    /\ Len(ItemsOf(heap, frames[2].locals.matches)) = 2
    /\ frames[2].result.value.some


(***************************************************************************)
(* Transcripts whose output lines hold a prompt pattern within the line:   *)
(* after other text, or after leading blanks.  One or two blocks of the    *)
(* command, then the end of the transcript, a prompt or another command.   *)
(***************************************************************************)
MaxPromptBody == 3   \* output lines of the first block

PromptCommands == {2, 6, 19, 20}

PromptShapes ==
    UNION {[1..m -> {"text", "midline", "indented"}] : m \in 0..MaxPromptBody}

SecondBlocks(n) ==
    {<<>>} \cup {<<NL>> \o CommandLine(n) \o Body(shape, 2, 1) :
                    shape \in {<<"text", "midline", "text">>,
                               <<"indented", "text", "text">>}}

PromptTranscripts ==
    UNION {{CommandLine(n) \o Body(shape, 1, 1) \o second \o PostText(n, post) :
                shape \in PromptShapes, second \in SecondBlocks(n),
                post \in {"end", "prompt", "other"}} :
           n \in PromptCommands}

InitPrompt ==
    /\ terminal_output \in PromptTranscripts
    /\ extractor = 0
    /\ segment = None
    /\ NoParse /\ NoDiff

NextPrompt == \E n \in PromptCommands : CallExtract(n)

SpecPrompt == InitPrompt /\ [][NextPrompt]_vars

\* text with an ordinary word for every prompt pattern that does not begin
\* a line, and with an ordinary word for every prompt pattern
Neutral(text) ==
    [i \in 1..Len(text) |->
        IF IsPromptWord(text[i]) /\ i > 1 /\ text[i - 1] # NL
        THEN "plain" ELSE text[i]]

NeutralAll(text) ==
    [i \in 1..Len(text) |-> IF IsPromptWord(text[i]) THEN "plain" ELSE text[i]]

(***************************************************************************)
(* C25.  A segment is ended only by a prompt pattern that begins a line.   *)
(* A prompt pattern within a line, after other text or after leading       *)
(* blanks, counts for nothing: the segment is the one returned for the     *)
(* transcript that has an ordinary word in the place of every such         *)
(* pattern.  The first line after the command line that begins with the    *)
(* pattern ends the segment: the segment lies within the lines before it.  *)
(***************************************************************************)
C25_OnlyLineStartPromptEnds ==
    extractor \in PromptCommands =>
        /\ segment.some = Extract(extractor, Neutral(terminal_output)).some
        /\ segment.some =>
              /\ NeutralAll(segment.text) =
                    Extract(extractor, Neutral(terminal_output)).text
              /\ HasWanted(extractor, terminal_output)
              /\ IsInfix(segment.text,
                         BlockText(terminal_output,
                                   MatchedLine(extractor, terminal_output)))

\* the output of the command is a line with a prompt after leading blanks,
\* a line with a prompt after other text and a line of text, and another
\* command follows: the segment runs past the two prompts within the lines
C25_Witness ==
    /\ extractor = 2
    /\ terminal_output =
          CommandLine(2) \o Body(<<"indented", "midline", "text">>, 1, 1)
              \o PostText(2, "other")
    /\ segment.some
    /\ Len(SplitLines(segment.text)) = 2
    /\ IsPromptWord(segment.text[1])
    /\ IsInfix(<<NL, BodyWord(1, 2), SP, Prompt>>, segment.text)


\* the entry lines among the lines, in their order
EntryLines(lines) == SelectSeq(lines, IsRsvpEntry)

(***************************************************************************)
(* C26.  In the RSVP session parser the entry of a line 'To From State Rt  *)
(* Style(2 tokens) Labelin Labelout LSPname' has the seventh word of the   *)
(* line as labelin, the eighth word alone as labelout and, when the line   *)
(* has a ninth word, an lspname that is not empty.                         *)
(***************************************************************************)
C26_EntryLineSplit ==
    Parsed(6) /\ ~result.raised =>
        \A kind \in {"Ingress", "Egress"} :
            LET lines == EntryLines(SectionLines("RSVP:", kind))
                section == result.value[Lower(kind)]
            IN  section.some =>
                    /\ Len(section.text.entries) = Len(lines)
                    /\ \A i \in 1..Len(lines) :
                          LET w == Words(lines[i])
                              entry == section.text.entries[i]
                          IN  /\ entry.labelin = w[7]
                              /\ entry.labelout = <<w[8]>>
                              /\ Len(w) >= 9 => entry.lspname # ""


\* a next-hop line of the inet.3 table, and the 'to' and 'via' it prints
IsNextHopLine(line) == Strip(line) \in {Strip(RouteHop), Strip(RouteDiscard)}

HopKey(line) ==
    LET w == Words(line)
    IN  IF Strip(line) = Strip(RouteDiscard) THEN <<"", "Discard">>
        ELSE <<w[Len(w) - 2], w[Len(w)]>>

\* the primary lines of the segment of command n
PrimaryLines(n) == {i \in 1..Len(SegmentLines) : IsPrimaryLine(n, i)}

\* the next-hop lines between the k-th primary line and the next one
HopLinesOf(n, k) ==
    LET from == Kth(PrimaryLines(n), k)
        to == IF k < Cardinality(PrimaryLines(n))
              THEN Kth(PrimaryLines(n), k + 1) ELSE Len(SegmentLines) + 1
    IN  SelectSeq(SubSeq(SegmentLines, from + 1, to - 1), IsNextHopLine)

(***************************************************************************)
(* C27.  In the inet.3 parser the next_hops of the route of a primary line *)
(* are the next-hop lines between that line and the next primary line, one *)
(* next-hop a line and in the order of the lines: a route printed with k   *)
(* next-hop lines has k next_hops, and no next-hop of another route.       *)
(***************************************************************************)
C27_NextHopsOfOpenRoute ==
    Parsed(8) /\ segment.some =>
        /\ ~result.raised
        /\ Len(result.value.entries) = Cardinality(PrimaryLines(8))
        /\ \A k \in 1..Len(result.value.entries) :
              LET next_hops == result.value.entries[k].next_hops
                  lines == HopLinesOf(8, k)
              IN  [i \in 1..Len(next_hops) |-> <<next_hops[i].to, next_hops[i].via>>]
                    = [i \in 1..Len(lines) |-> HopKey(lines[i])]

\* a route with a 'to ... via ...' line and a route with a 'Discard' line
C27_Witness ==
    /\ Parsed(8) /\ segment.some /\ ~result.raised
    /\ Len(SegmentLines) = 4
    /\ IsPrimaryLine(8, 1) /\ SegmentLines[2] = RouteHop
    /\ IsPrimaryLine(8, 3) /\ SegmentLines[4] = RouteDiscard
    /\ Len(result.value.entries) = 2
    /\ Len(result.value.entries[1].next_hops) = 1
    /\ result.value.entries[1].next_hops[1].via = "ge-0"
    /\ Len(result.value.entries[2].next_hops) = 1
    /\ result.value.entries[2].next_hops[1].via = "Discard"

\* a route with three next-hop lines
C27_ThreeHops ==
    /\ Parsed(8) /\ segment.some /\ ~result.raised
    /\ Len(SegmentLines) = 4
    /\ IsPrimaryLine(8, 1)
    /\ \A i \in 2..4 : IsNextHopLine(SegmentLines[i])
    /\ Len(result.value.entries[1].next_hops) = 3


(***************************************************************************)
(* The sectioned parsers: 'show rsvp session' and 'show mpls lsp'.         *)
(***************************************************************************)
SectionedParsers == {6, 11}

\* the word after the direction in the section header of command n
SectionWord(n) == IF n = 6 THEN "RSVP:" ELSE "LSP:"

\* the line is an entry line in the format of a Section of this direction:
\* in 'show mpls lsp' the Ingress format has seven columns, of which the
\* sixth may be empty, and the other formats nine
IsSectionEntry(n, kind, line) ==
    IF n = 6 THEN IsRsvpEntry(line)
    ELSE Strip(line) \in (IF kind = "Ingress" THEN {LspIn1, LspIn2, RsvpS1}
                          ELSE {RsvpS1})

\* the entry lines of the Section of a direction, in their order
SectionEntryLines(n, kind) ==
    SelectSeq(SectionLines(SectionWord(n), kind),
              LAMBDA line : IsSectionEntry(n, kind, line))

(***************************************************************************)
(* C28.  In the sectioned parsers the Section of a direction is there when *)
(* the segment has a header of that direction, and only then; its entries  *)
(* are the entry lines between the last header of that direction and the   *)
(* next section header, in their order, and its totals are those of the    *)
(* last summary line among these lines.  So the entry and summary lines    *)
(* before any header are in no Section, a segment without a header gives   *)
(* no Section, and a repeated header of a direction starts its Section     *)
(* anew, without the entries and totals of the earlier one.                *)
(***************************************************************************)
C28_LinesGoToLastOpenedSection ==
    \A n \in SectionedParsers :
        Parsed(n) /\ segment.some =>
            /\ ~result.raised
            /\ result.value.transit = None
            /\ \A kind \in {"Ingress", "Egress"} :
                  LET lines == SectionEntryLines(n, kind)
                      section == result.value[Lower(kind)]
                  IN  IF SectionLines(SectionWord(n), kind) = <<>>
                      THEN section = None
                      ELSE /\ section.some
                           /\ [i \in 1..Len(section.text.entries) |->
                                  <<section.text.entries[i].to,
                                    section.text.entries[i].state>>]
                                = [i \in 1..Len(lines) |->
                                      <<Words(lines[i])[1], Words(lines[i])[3]>>]
                           /\ <<section.text.total_displayed, section.text.total_up,
                                 section.text.total_down>>
                                = NumbersOfLast(SectionLines(SectionWord(n), kind))

\* an entry line before any header, the Ingress header, an entry line and
\* the Ingress header again: the Ingress Section has no entries
C28_Witness ==
    /\ Parsed(6) /\ segment.some /\ ~result.raised
    /\ SegmentLines = <<RsvpS1, RsvpIngress, RsvpS2, RsvpIngress>>
    /\ result.value.ingress.some
    /\ result.value.ingress.text.entries = <<>>
    /\ result.value.egress = None


\* The Groups that the lines of a Section open, each with the entry lines
\* read while it is open: a group header opens a Group and ends the one
\* before, a summary line ends the open Group.  open is <<>> or holds the
\* open Group.
RECURSIVE GroupsOpened(_, _)
GroupsOpened(lines, open) ==
    IF Len(lines) = 0 THEN open
    ELSE LET line == Head(lines)
             w == Words(line)
         IN  IF IsGroupHeader(line)
             THEN open \o GroupsOpened(Tail(lines),
                            <<[name |-> HeaderName(line), entries |-> <<>>]>>)
             ELSE IF IsRsvpSummary(line)
             THEN open \o GroupsOpened(Tail(lines), <<>>)
             ELSE IF IsRsvpEntry(line) /\ Len(open) > 0
             THEN GroupsOpened(Tail(lines),
                    <<[open[1] EXCEPT !.entries = Append(@, <<w[1], w[3]>>)]>>)
             ELSE GroupsOpened(Tail(lines), open)

\* the Groups of a Section of the result, in the same terms
GroupsHeld(section) ==
    [i \in 1..Len(section.groups) |->
        [name |-> section.groups[i].p2mp_name,
         entries |-> [j \in 1..Len(section.groups[i].entries) |->
                        <<section.groups[i].entries[j].to,
                          section.groups[i].entries[j].state>>]]]

\* a is b with some of its elements left out
RECURSIVE IsSubsequence(_, _)
IsSubsequence(a, b) ==
    IF Len(a) = 0 THEN TRUE
    ELSE IF Len(b) = 0 THEN FALSE
    ELSE IF Head(a) = Head(b) THEN IsSubsequence(Tail(a), Tail(b))
    ELSE IsSubsequence(a, Tail(b))

(***************************************************************************)
(* C29.  In the MPLS LSP P2MP parser the Groups of a Section are, in their *)
(* order and each at most once, Groups opened by the group headers between *)
(* the header of the Section and the next section header, and the entries  *)
(* of a Group are the entry lines read while it was open: an entry line    *)
(* before the first group header of the Section or after its summary line  *)
(* is in no Group.                                                         *)
(***************************************************************************)
C29_GroupsOpenedInTheirSection ==
    Parsed(12) /\ segment.some =>
        /\ ~result.raised
        /\ \A kind \in {"Ingress", "Egress"} :
              LET section == result.value[Lower(kind)]
              IN  section.some =>
                    IsSubsequence(GroupsHeld(section.text),
                                  GroupsOpened(SectionLines("LSP:", kind), <<>>))

\* the Ingress header, an entry line, a group header and an entry line: one
\* Group with the second entry line
C29_Witness ==
    /\ Parsed(12) /\ segment.some /\ ~result.raised
    /\ SegmentLines = <<P2mpIngress, RsvpS1, P2mpGroup1, RsvpS1>>
    /\ result.value.ingress.some
    /\ Len(result.value.ingress.text.groups) = 1
    /\ result.value.ingress.text.groups[1].p2mp_name = <<"g1">>
    /\ Len(result.value.ingress.text.groups[1].entries) = 1


(***************************************************************************)
(* The two flat regex parsers with a count, ARP and RSVP neighbor, on      *)
(* segments of up to MaxLines lines of their commands: entry lines, the    *)
(* line of the count with a number and with 0, and junk.                   *)
(***************************************************************************)
ArpTotal0 == <<"Total", SP, "entries:", SP, "0">>
ArpTotal0Comma == <<"Total", SP, "entries:", SP, "0,">>
ArpTotal1d == <<"Total", SP, "entries:", SP, "1d">>

CountParsers == {1, 5}

CountKinds(n) ==
    IF n = 1
    THEN {ArpHeader, ArpE1, ArpE2, ArpTotal2, ArpTotal0, ArpTotal0Comma, ArpTotal1d,
          Garbage}
    ELSE LineKinds(5)

InitCounts ==
    /\ terminal_output = <<>>
    /\ \E n \in CountParsers :
          /\ extractor = n
          /\ segment \in {Some(Strip(JoinLines(ls))) :
                            ls \in UNION {[1..m -> CountKinds(n)] : m \in 0..MaxLines}}
    /\ NoParse /\ NoDiff

NextCounts == \E n \in CountParsers : ParseSegment(n)

SpecCounts == InitCounts /\ [][NextCounts]_vars

\* the lines of the segment that give the count of command n, and the
\* number on each
CountLines(n) ==
    SelectSeq(SegmentLines,
        LAMBDA line :
            LET w == Words(line)
            IN  IF n = 1
                THEN Len(w) = 3 /\ w[1] = "Total" /\ w[2] = "entries:"
                        /\ StartsWithDigit(w[3])
                ELSE Len(w) = 4 /\ w[1] = "RSVP" /\ w[2] = "neighbor:"
                        /\ w[4] = "learned")

\* the number read: re.search over the whole output takes the first line of
\* the ARP total and the digits its last word begins with, the loop over the
\* lines keeps the last RSVP neighbor header; 0 when there is no such line
CountRead(n) ==
    LET lines == CountLines(n)
    IN  IF Len(lines) = 0 THEN 0
        ELSE IF n = 1 THEN ToInt(DigitsAtStart(Words(lines[1])[3]))
        ELSE ToInt(Words(lines[Len(lines)])[3])

\* the count field of the result of command n
CountField(n) ==
    IF n = 1 THEN result.value.total_entries ELSE result.value.total_neighbors

(***************************************************************************)
(* C30.  In the regex parsers of ARP and of RSVP neighbor the count of the *)
(* result is the number read from the line of the count when that number   *)
(* is not 0, and the number of parsed entries when the line is missing or  *)
(* reads 0; a count of 0 goes with an empty list of entries.  The regex    *)
(* parser of ARP is what runs when the primary attempt has raised.         *)
(***************************************************************************)
C30_CountReadOrRecomputed ==
    \A n \in CountParsers :
        Parsed(n) /\ segment.some /\ (n = 1 => PrimaryAttempt.raised) =>
            /\ ~result.raised
            /\ CountRead(n) # 0 => CountField(n) = CountRead(n)
            /\ CountRead(n) = 0 => CountField(n) = Len(result.value.entries)
            /\ CountField(n) = 0 => result.value.entries = <<>>

\* a header line that reads 0 and one neighbor: the count is 1
C30_Witness ==
    /\ Parsed(5) /\ segment.some /\ ~result.raised
    /\ SegmentLines = <<NeiHeader0, NeiN1>>
    /\ Len(result.value.entries) = 1
    /\ result.value.total_neighbors = 1


\* the entries of a list, as a set
Members(entries) == {entries[i] : i \in 1..Len(entries)}

\* post holds for the command what pre holds, with the same entries under
\* distinct keys in another order
Reordered(name) ==
    LET pre == pre_data[name].entries
        post == post_data[name].entries
    IN  /\ pre # post
        /\ Len(pre) = Len(post)
        /\ Members(pre) = Members(post)
        /\ Cardinality(KeysOf(name, pre)) = Len(pre)
        /\ name = "show_arp_no_resolve"
              => pre_data[name].total_entries = post_data[name].total_entries

(***************************************************************************)
(* C31.  The diff of a parsed collection with itself, one with repeated    *)
(* keys included, tags every field of every comparison entry match, gives  *)
(* no entry a status and gives the command the Verdict match; so does the  *)
(* diff of two collections that hold the same entries, under distinct      *)
(* keys, in a different order.                                             *)
(***************************************************************************)
C31_DiffWithItselfIsMatch ==
    \A name \in Commands :
        Compared(name) /\ (pre_data[name] = post_data[name] \/ Reordered(name)) =>
            /\ Len(EntriesOf(name)) = Cardinality(PreKeys(name))
            /\ \A i \in 1..Len(EntriesOf(name)) :
                  /\ ~JHas(EntriesOf(name)[i], "status")
                  /\ AllFields(name, EntriesOf(name)[i], "green")
            /\ name = "show_arp_no_resolve"
                  => JGet(JGet(comparison, name), "total_entries").str = "green"
            /\ pc = "done" => Verdict(name) = "MATCH"

\* both sides hold 10.0.0.1 twice, with MAC aa:01 and then aa:02: one
\* comparison entry, all match
C31_Witness ==
    /\ pc = "done"
    /\ DOMAIN pre_data = {"show_arp_no_resolve"}
    /\ pre_data["show_arp_no_resolve"].entries
          = <<ArpBase1, [ArpBase1 EXCEPT !.mac_address = "aa:02"]>>
    /\ post_data = pre_data
    /\ Len(EntriesOf("show_arp_no_resolve")) = 1
    /\ AllFields("show_arp_no_resolve", EntriesOf("show_arp_no_resolve")[1], "green")
    /\ Verdict("show_arp_no_resolve") = "MATCH"

\* the VRRP entries of groups 1 and 2 in the two orders: two comparison
\* entries, all match
C31_WitnessReordered ==
    /\ pc = "done"
    /\ DOMAIN pre_data = {"show_vrrp_summary"}
    /\ pre_data["show_vrrp_summary"].entries
          = <<VrrpBase, [VrrpBase EXCEPT !.group = 2]>>
    /\ post_data["show_vrrp_summary"].entries
          = <<[VrrpBase EXCEPT !.group = 2], VrrpBase>>
    /\ Verdict("show_vrrp_summary") = "MATCH"


\* a comparison with 'added' in place of 'deleted' and 'deleted' in place
\* of 'added', and nothing else changed
RECURSIVE StatusSwapped(_)
StatusSwapped(v) ==
    IF v.kind = "str"
    THEN (IF v.str = "added" THEN JStr("deleted")
          ELSE IF v.str = "deleted" THEN JStr("added") ELSE v)
    ELSE IF v.kind = "list"
    THEN JList([i \in 1..Len(v.items) |-> StatusSwapped(v.items[i])])
    ELSE JDict([i \in 1..Len(v.items) |->
                    KV(v.items[i].key, StatusSwapped(v.items[i].value))])

\* the diff with its two arguments swapped
SwappedComparison == generate_comparison(post_data, pre_data)

(***************************************************************************)
(* C32.  The diff of (post, pre) is the diff of (pre, post) with 'added'   *)
(* and 'deleted' exchanged: the same commands, the same comparison entries *)
(* in the same key order with the same tag on every field, and the same    *)
(* Verdict for every command compared.                                     *)
(***************************************************************************)
C32_SwapExchangesAddedAndDeleted ==
    pc \in {"export", "done"} =>
        /\ SwappedComparison = StatusSwapped(comparison)
        /\ \A name \in Commands :
              JHas(comparison, name) =>
                 determine_overall_color(JGet(SwappedComparison, name))
                    = determine_overall_color(JGet(comparison, name))

\* pre holds the VRRP group 1 of ge-0 and post the group 2: 'deleted' then
\* 'added', and 'added' then 'deleted' with the arguments swapped
C32_Witness ==
    /\ Compared("show_vrrp_summary")
    /\ pre_data["show_vrrp_summary"].entries = <<VrrpBase>>
    /\ post_data["show_vrrp_summary"].entries = <<[VrrpBase EXCEPT !.group = 2]>>
    /\ JGet(EntriesOf("show_vrrp_summary")[1], "status").str = "deleted"
    /\ JGet(EntriesOf("show_vrrp_summary")[2], "status").str = "added"
    /\ JGet(JGet(JGet(SwappedComparison, "show_vrrp_summary"), "entries").items[1],
            "status").str = "added"


\* the fields that make the key of a command's entries
KeyFields(name) ==
    IF name = "show_arp_no_resolve" THEN {"ip_address"} ELSE {"interface", "group"}

(***************************************************************************)
(* C33.  In the comparison entry of a key that both sides hold, the key    *)
(* fields (ip_address for ARP, interface and group for VRRP) are tagged    *)
(* match; a comparison entry with a key field tagged mismatch carries the  *)
(* status 'added' or 'deleted'.                                            *)
(***************************************************************************)
C33_KeyFieldsMatchOnBothSides ==
    \A name \in Commands :
        Compared(name) =>
            /\ \A i \in 1..Len(EntriesOf(name)) :
                  (\E f \in KeyFields(name) : JGet(EntriesOf(name)[i], f).str = "red")
                  => /\ JHas(EntriesOf(name)[i], "status")
                     /\ JGet(EntriesOf(name)[i], "status").str \in {"added", "deleted"}
            /\ Len(EntriesOf(name)) = Cardinality(PreKeys(name) \cup PostKeys(name))
            /\ \A k \in PreKeys(name) \cap PostKeys(name) :
                  \A f \in KeyFields(name) : JGet(EntryFor(name, k), f).str = "green"

\* ARP key 10.0.0.1 on both sides with another interface, and 10.0.0.2 in
\* post alone: ip_address is match in the first entry and mismatch in the
\* second, which is 'added'
C33_Witness ==
    /\ Compared("show_arp_no_resolve")
    /\ pre_data["show_arp_no_resolve"].entries = <<ArpBase1>>
    /\ post_data["show_arp_no_resolve"].entries
          = <<[ArpBase1 EXCEPT !.interface = "ge-1"], ArpBase2>>
    /\ JGet(EntriesOf("show_arp_no_resolve")[1], "ip_address").str = "green"
    /\ JGet(EntriesOf("show_arp_no_resolve")[1], "interface").str = "red"
    /\ JGet(EntriesOf("show_arp_no_resolve")[2], "ip_address").str = "red"
    /\ JGet(EntriesOf("show_arp_no_resolve")[2], "status").str = "added"


(***************************************************************************)
(* Transcripts for the two extractors of the bare 'show rsvp session':     *)
(* those of the rsvp session family, a block of the command with blank     *)
(* lines after an earlier command, and blocks whose lines hold a prompt    *)
(* pattern within the line.                                                *)
(***************************************************************************)
BareExtractors == {19, 20}

BareTranscripts ==
    RsvpTranscripts
    \cup {SegTranscript(19, pre, shape, post) :
            pre \in BOOLEAN, shape \in Shapes(19), post \in Posts}
    \cup {CommandLine(19) \o Body(shape, 1, 1) \o second \o PostText(19, post) :
            shape \in PromptShapes, second \in SecondBlocks(19),
            post \in {"end", "prompt", "other"}}

InitBare ==
    /\ terminal_output \in BareTranscripts
    /\ extractor = 0
    /\ segment = None
    /\ NoParse /\ NoDiff

NextBare == \E n \in BareExtractors : CallExtract(n)

SpecBare == InitBare /\ [][NextBare]_vars

(***************************************************************************)
(* C34.  The first-occurrence extractor returns the block that the scan of *)
(* the second-occurrence extractor computes for the first bare 'show rsvp  *)
(* session' command line, and None when the scan finds no such line.      *)
(***************************************************************************)
C34_FirstIsFirstOfScan ==
    extractor = 19 =>
        segment = IF Len(matches(terminal_output)) = 0 THEN None
                  ELSE matches(terminal_output)[1]

\* two blocks of the bare command, the first with a prompt pattern within
\* a line, and a prompt after them: the first-occurrence extractor returned
\* the first block of the scan, which is not the second
C34_Witness ==
    /\ extractor = 19
    /\ terminal_output =
          CommandLine(19) \o Body(<<"midline", "text", "text">>, 1, 1)
              \o <<NL>> \o CommandLine(19) \o Body(<<"indented", "text", "text">>, 2, 1)
              \o PostText(19, "prompt")
    /\ Len(matches(terminal_output)) = 2
    /\ segment.some
    /\ segment = matches(terminal_output)[1]
    /\ segment # matches(terminal_output)[2]
    /\ IsInfix(<<BodyWord(1, 1), SP, Prompt>>, segment.text)

====
